---------------------------- MODULE Spec2Model ----------------------------
(***************************************************************************)
(* State-machine model of the crawl / dedupe / enrich / publish pipeline   *)
(* of taja-khobor.  Each component has its own specification over its own  *)
(* variables; the variables of the other components stay parked.           *)
(*                                                                         *)
(*   SpecStore    boltStore: SeenArticle, MarkArticle, maybeCleanupExpired *)
(*   SpecFanout   Fanout.Publish over the configured sinks                 *)
(*   SpecProcess  ProviderProcessor.Process for one provider               *)
(*   SpecEnrich   Scraper.Enrich and its articleWorker goroutines          *)
(*   SpecRun      Service.Run, runAll and the provider workers             *)
(*   SpecHarvester  Harvester.Run, the crawl loop around Service.Run       *)
(*   SpecMeta     parseMeta and the overlay of fetchAndParse               *)
(***************************************************************************)
EXTENDS Integers, Sequences, FiniteSets, TLC

VARIABLES
    \* ---- boltStore (src/unnamed/part_001)
    clock,          \* wall clock, in ticks of 1/TicksPerSec second
    articleTTL,     \* boltStore.articleTTL, in ticks
    cleanupInterval,\* boltStore.cleanupInterval, in ticks
    bucket,         \* the "articles" bucket: id -> stored value (or NoValue)
    lastCleanup,    \* boltStore.lastCleanup, Unix seconds
    cleanupMu,      \* boltStore.cleanupMu: the caller holding it, or NoOwner
    st,             \* per caller: position inside SeenArticle / MarkArticle
    ret,            \* what the call that returned in this step returned (or NoRet)
    markedAt,       \* history: `now` of the MarkArticle whose Put was committed last
    dbErrors,       \* storage-layer failures injected so far
    scan,           \* the cleanup scan committed in this step: its `now` and the bucket before it (or NoScan)
    scanNow,        \* history: `now` of the cleanup scan committed last (or NoMark)
    \* ---- Fanout (src/pkg/publishers/fanout.go)
    fanout,         \* the *Fanout: NilFanout, or its publishers slice
    fCalls,         \* per sink: how often its Publish was invoked (stubPublisher.calls)
    fOut,           \* per sink: whether it failed in the last Fanout.Publish
    fRes,           \* (successful, err) returned by the last Fanout.Publish
    \* ---- ProviderProcessor (src/internal/crawler/crawler.go)
    proc,           \* the *ProviderProcessor: registry, scraper, publisher, deduper
    pCtx,           \* the ctx passed to Process
    pPc,            \* position inside Process
    pFetched,       \* what fetcher.Fetch returned
    pArticles,      \* the local `articles` of Process / publishArticles
    pFresh,         \* the local `fresh` of filterNewArticles
    pIdx,           \* index of the range loop in progress
    pErrs,          \* the local `errs` of publishArticles
    pPublished,     \* the local `published` of publishArticles
    pLog,           \* history: the calls Process made to its collaborators
    pRet,           \* what Process returned
    \* ---- Scraper.Enrich (src/internal/crawler/scraper.go)
    eArticles,      \* the `articles` argument
    eCap,           \* the worker maximum in force (maxArticleWorkers, or a scaled-down pool)
    eDelayMs,       \* cfg.RequestDelayMs
    eOut,           \* the `out` slice
    eTick,          \* ticks waiting in the limiter channel (ticker.C)
    eLim,           \* history: ticks the limiter delivered, ticks the workers took
    eCtx,           \* ctx: "live" or "cancelled"
    eDisp,          \* the dispatching loop of Enrich: position and next index
    eJobs,          \* jobCh: "open" or "closed"
    eW,             \* per articleWorker: position and claimed index
    eHist,          \* history per index: claimed / fetch started before or after cancel, result
    eRet,           \* the slice Enrich returned (or NotReturned)
    \* ---- Service.Run (src/internal/crawler/crawler.go)
    rSvc,           \* the receiver: constructed, nil, or without a processor
    rCap,           \* the worker maximum in force (maxProviderWorkers, or a scaled-down pool)
    rCfgs,          \* the `cfgs` argument
    rCtx,           \* ctx: "live" or "cancelled"
    rPre,           \* history: ctx was cancelled when Run was called
    rDisp,          \* the dispatching loop of runAll: position and next index
    rCfgCh,         \* cfgCh: "open" or "closed"
    rW,             \* per worker: position and the provider it holds
    rErrCh,         \* errCh: the errors sent to it
    rErrClosed,     \* errCh has been closed
    rHist,          \* history per provider: Process called, and its result
    rRet,           \* what Run returned
    \* ---- NewStore and noopStore (src/internal/storage/storage.go)
    nTyp,           \* the `typ` argument of NewStore
    nPath,          \* the `path` argument of NewStore
    nStore,         \* what NewStore returned: "noop", "bolt", an error, or "unset" before the call
    nMarked,        \* history: the ids MarkArticle was called with
    nCalls,         \* calls made on the store so far
    nRet,           \* what the last call on the store returned
    \* ---- Harvester.Run (src/internal/app/harvester.go)
    hPc,            \* position inside Run
    hCtx,           \* ctx: "active" or "cancelled"
    hTicker,        \* the crawl ticker: "none", "running" or "stopped"
    hTick,          \* ticks waiting in ticker.C
    hTicks,         \* history: ticks the ticker delivered, ticks the loop took
    hPasses,        \* history per pass: the tick that started it, ctx at its start, its result
    hLogged,        \* history: crawl failures logged
    hStore,         \* h.store: "open" or "closed"
    hOps,           \* history: SeenArticle / MarkArticle calls issued on the open / closed store
    hRet,           \* what Run returned
    \* ---- parseMeta and the overlay of fetchAndParse (src/internal/crawler/scraper.go)
    mDoc,           \* the parsed page: its metadata tags
    mArt,           \* the `art` argument of fetchAndParse
    mOut            \* the `updated` article fetchAndParse returned (or NotParsed)

storeVars == <<clock, articleTTL, cleanupInterval, bucket, lastCleanup,
               cleanupMu, st, ret, markedAt, dbErrors, scan, scanNow>>

fanVars == <<fanout, fCalls, fOut, fRes>>

procVars == <<proc, pCtx, pPc, pFetched, pArticles, pFresh, pIdx, pErrs, pPublished,
              pLog, pRet>>

enrVars == <<eArticles, eCap, eDelayMs, eOut, eTick, eLim, eCtx, eDisp, eJobs, eW, eHist, eRet>>

runVars == <<rSvc, rCap, rCfgs, rCtx, rPre, rDisp, rCfgCh, rW, rErrCh, rErrClosed, rHist, rRet>>

newVars == <<nTyp, nPath, nStore, nMarked, nCalls, nRet>>

harVars == <<hPc, hCtx, hTicker, hTick, hTicks, hPasses, hLogged, hStore, hOps, hRet>>

metaVars == <<mDoc, mArt, mOut>>

vars == <<storeVars, fanVars, procVars, enrVars, runVars, newVars, harVars, metaVars>>

\* What an action of one component leaves alone: the other components.
notStore == <<fanVars, procVars, enrVars, runVars, newVars, harVars, metaVars>>
notFanout == <<storeVars, procVars, enrVars, runVars, newVars, harVars, metaVars>>
notProcess == <<storeVars, fanVars, enrVars, runVars, newVars, harVars, metaVars>>
notEnrich == <<storeVars, fanVars, procVars, runVars, newVars, harVars, metaVars>>
notRun == <<storeVars, fanVars, procVars, enrVars, newVars, harVars, metaVars>>
notNewStore == <<storeVars, fanVars, procVars, enrVars, runVars, harVars, metaVars>>
notHarvester == <<storeVars, fanVars, procVars, enrVars, runVars, newVars, metaVars>>
notMeta == <<storeVars, fanVars, procVars, enrVars, runVars, newVars, harVars>>

-----------------------------------------------------------------------------
(* Bounds of the model. *)

TicksPerSec == 2
MaxClock == 4
MaxTTL == 2
MaxInterval == 2
MaxDbErrors == 1
MaxSinks == 3
MaxCalls == 2
MaxArticles == 2
MaxBatch == 2
MaxProviders == 3
MaxStoreCalls == 3
MaxPool == 2
MaxPasses == 3

-----------------------------------------------------------------------------
(* boltStore *)

expiryValueBytes == 8

Callers == {"g1", "g2"}
Ids == {"a1", "a2"}

NoValue == [width |-> 0, unix |-> 0]
NoOwner == "none"
NoMark == 0 - 1

\* time.Time.Unix(): whole seconds since the epoch, dropping the fraction.
Unix(t) == t \div TicksPerSec

\* time.Unix(sec, 0): the instant of a whole second.
FromUnix(sec) == sec * TicksPerSec

\* binary.BigEndian.PutUint64 of the expiry second into an 8-byte value.
EncodeExpiry(t) == [width |-> expiryValueBytes, unix |-> Unix(t)]

\* (mutant) the value's length is not checked.
decodeExpiryAnyWidth(value) ==
    IF value.unix <= 0 THEN <<0, FALSE>> ELSE <<FromUnix(value.unix), TRUE>>

\* decodeExpiry: <<instant, ok>>.
decodeExpiry(value) ==
    IF value.width # expiryValueBytes THEN <<0, FALSE>>
    ELSE IF value.unix <= 0 THEN <<0, FALSE>>
    ELSE <<FromUnix(value.unix), TRUE>>

\* !ok || !expiry.After(now)
Expired(value, now) ==
    LET d == decodeExpiry(value)
    IN  (~d[2]) \/ ~(d[1] > now)

\* now.Sub(last) < b.cleanupInterval, last := time.Unix(lastCleanup, 0)
NotDue(now, last) == now - FromUnix(last) < cleanupInterval

NoRet == [op |-> "none", id |-> "none", seen |-> FALSE, err |-> FALSE, found |-> "none"]
NoScan == [now |-> NoMark, prev |-> NoMark, before |-> <<>>]
Idle == [pc |-> "idle", op |-> "none", id |-> "none", now |-> 0]

\* The value a call returns: (exists, err) of SeenArticle, err of MarkArticle.
Return(g, seen, err, found) ==
    [op |-> st[g].op, id |-> st[g].id, seen |-> seen, err |-> err, found |-> found]

InitStore ==
    /\ clock \in TicksPerSec .. (2 * TicksPerSec - 1)
    /\ articleTTL \in 1 .. MaxTTL
    /\ cleanupInterval \in 1 .. MaxInterval
    /\ bucket = [i \in Ids |-> NoValue]
    /\ lastCleanup = Unix(clock)
    /\ cleanupMu = NoOwner
    /\ st = [g \in Callers |-> Idle]
    /\ ret = NoRet
    /\ markedAt = [i \in Ids |-> NoMark]
    /\ dbErrors = 0
    /\ scan = NoScan
    /\ scanNow = NoMark

\* Values found in the database file that MarkArticle did not write: one of
\* another width (its leading bytes read as a second still to come), and
\* 8-byte values holding zero and a negative second.
ForeignValues ==
    {[width |-> expiryValueBytes \div 2, unix |-> MaxClock],
     [width |-> expiryValueBytes, unix |-> 0],
     [width |-> expiryValueBytes, unix |-> 0 - 1]}

\* openBolt on a file in which "a1" has such a value.
InitStoreForeign ==
    /\ clock = TicksPerSec
    /\ articleTTL = MaxTTL
    /\ cleanupInterval \in 1 .. MaxInterval
    /\ bucket \in {[i \in Ids |-> IF i = "a1" THEN v ELSE NoValue] : v \in ForeignValues}
    /\ lastCleanup = Unix(clock)
    /\ cleanupMu = NoOwner
    /\ st = [g \in Callers |-> Idle]
    /\ ret = NoRet
    /\ markedAt = [i \in Ids |-> NoMark]
    /\ dbErrors = 0
    /\ scan = NoScan
    /\ scanNow = NoMark

\* Time passes.
Tick ==
    /\ clock < MaxClock
    /\ clock' = clock + 1
    /\ UNCHANGED notStore
    /\ scan' = NoScan
    /\ UNCHANGED scanNow
    /\ ret' = NoRet
    /\ UNCHANGED <<articleTTL, cleanupInterval, bucket, lastCleanup, cleanupMu,
                   st, markedAt, dbErrors>>

\* Entry of SeenArticle(id) / MarkArticle(id): time.Now() is read once and
\* handed to maybeCleanupExpired.
Call(g, op, id) ==
    /\ st[g].pc = "idle"
    /\ st' = [st EXCEPT ![g] = [pc |-> "fast", op |-> op, id |-> id,
                                now |-> clock]]
    /\ UNCHANGED notStore
    /\ scan' = NoScan
    /\ UNCHANGED scanNow
    /\ ret' = NoRet
    /\ UNCHANGED <<clock, articleTTL, cleanupInterval, bucket, lastCleanup,
                   cleanupMu, markedAt, dbErrors>>

\* maybeCleanupExpired, fast path: the read of lastCleanup without the lock.
FastCheck(g) ==
    /\ st[g].pc = "fast"
    /\ st' = [st EXCEPT ![g].pc =
                 IF NotDue(st[g].now, lastCleanup) THEN "txn" ELSE "lock"]
    /\ UNCHANGED notStore
    /\ scan' = NoScan
    /\ UNCHANGED scanNow
    /\ ret' = NoRet
    /\ UNCHANGED <<clock, articleTTL, cleanupInterval, bucket, lastCleanup,
                   cleanupMu, markedAt, dbErrors>>

\* (mutant) lastCleanup is not read again under the lock.
NoRecheck(now, last) == FALSE

\* maybeCleanupExpired, under the lock: last is loaded and tested again.
Recheck(now, last) == NotDue(now, last)

\* maybeCleanupExpired, slow path: cleanupMu.Lock() and the second check.
\* The deferred Unlock runs at once when the cleanup is no longer due.
LockAndRecheck(g) ==
    /\ st[g].pc = "lock"
    /\ cleanupMu = NoOwner
    /\ IF Recheck(st[g].now, lastCleanup)
       THEN /\ st' = [st EXCEPT ![g].pc = "txn"]
            /\ UNCHANGED cleanupMu
       ELSE /\ st' = [st EXCEPT ![g].pc = "scan"]
            /\ cleanupMu' = g
    /\ UNCHANGED notStore
    /\ scan' = NoScan
    /\ UNCHANGED scanNow
    /\ ret' = NoRet
    /\ UNCHANGED <<clock, articleTTL, cleanupInterval, bucket, lastCleanup,
                   markedAt, dbErrors>>

\* (mutant) the cursor loop keeps a record whose expiry is exactly `now`.
ScannedKeepsBoundary(b, now) ==
    [i \in Ids |-> IF b[i] # NoValue /\ Expired(b[i], now - 1) THEN NoValue ELSE b[i]]

\* The cursor loop of the cleanup transaction: the bucket after the scan.
Scanned(b, now) ==
    [i \in Ids |-> IF b[i] # NoValue /\ Expired(b[i], now) THEN NoValue ELSE b[i]]

\* The cleanup transaction commits: lastCleanup.Store(now.Unix()), Unlock.
ScanOk(g) ==
    /\ st[g].pc = "scan"
    /\ bucket' = Scanned(bucket, st[g].now)
    /\ lastCleanup' = Unix(st[g].now)
    /\ scan' = [now |-> st[g].now, prev |-> scanNow, before |-> bucket]
    /\ scanNow' = st[g].now
    /\ cleanupMu' = NoOwner
    /\ st' = [st EXCEPT ![g].pc = "txn"]
    /\ UNCHANGED notStore
    /\ ret' = NoRet
    /\ UNCHANGED <<clock, articleTTL, cleanupInterval, markedAt, dbErrors>>

\* (mutant) lastCleanup is stored whether or not the scan committed.
AfterScanErrorStoresNow(last, now) == Unix(now)

\* maybeCleanupExpired: lastCleanup after a scan that returned an error
\* (the Store is under `if err == nil`).
AfterScanError(last, now) == last

\* The cleanup transaction fails: nothing is written, the error is returned
\* to the caller of SeenArticle / MarkArticle.
ScanFail(g) ==
    /\ st[g].pc = "scan"
    /\ dbErrors < MaxDbErrors
    /\ dbErrors' = dbErrors + 1
    /\ lastCleanup' = AfterScanError(lastCleanup, st[g].now)
    /\ cleanupMu' = NoOwner
    /\ st' = [st EXCEPT ![g] = Idle]
    /\ UNCHANGED notStore
    /\ scan' = NoScan
    /\ UNCHANGED scanNow
    /\ ret' = Return(g, FALSE, TRUE, "scan failed")
    /\ UNCHANGED <<clock, articleTTL, cleanupInterval, bucket, markedAt>>

\* What the lookup transaction of SeenArticle finds for a stored value at `now`.
Found(value, now) ==
    IF value = NoValue THEN "absent"
    ELSE IF Expired(value, now) THEN "expired"
    ELSE "live"

\* (mutant) the lookup leaves the expired record in the bucket.
AfterLookupKeepsExpired(b, id, now) == b

\* The bucket after the lookup transaction: an expired record is deleted.
AfterLookup(b, id, now) ==
    IF Found(b[id], now) = "expired" THEN [b EXCEPT ![id] = NoValue] ELSE b

\* SeenArticle's lookup transaction (time.Now() is read inside it).
LookupOk(g) ==
    /\ st[g].pc = "txn"
    /\ st[g].op = "seen"
    /\ bucket' = AfterLookup(bucket, st[g].id, clock)
    /\ st' = [st EXCEPT ![g] = Idle]
    /\ UNCHANGED notStore
    /\ scan' = NoScan
    /\ UNCHANGED scanNow
    /\ ret' = Return(g, Found(bucket[st[g].id], clock) = "live", FALSE,
                     Found(bucket[st[g].id], clock))
    /\ UNCHANGED <<clock, articleTTL, cleanupInterval, lastCleanup, cleanupMu,
                   markedAt, dbErrors>>

\* The lookup transaction fails to commit: `exists` keeps what the closure
\* set, the bucket is rolled back.
LookupFail(g) ==
    /\ st[g].pc = "txn"
    /\ st[g].op = "seen"
    /\ dbErrors < MaxDbErrors
    /\ dbErrors' = dbErrors + 1
    /\ st' = [st EXCEPT ![g] = Idle]
    /\ UNCHANGED notStore
    /\ scan' = NoScan
    /\ UNCHANGED scanNow
    /\ ret' = Return(g, Found(bucket[st[g].id], clock) = "live", TRUE, "none")
    /\ UNCHANGED <<clock, articleTTL, cleanupInterval, bucket, lastCleanup,
                   cleanupMu, markedAt>>

\* The bucket after MarkArticle's Put of now + TTL.
AfterPut(b, id, now) == [b EXCEPT ![id] = EncodeExpiry(now + articleTTL)]

\* MarkArticle's write transaction.
PutOk(g) ==
    /\ st[g].pc = "txn"
    /\ st[g].op = "mark"
    /\ bucket' = AfterPut(bucket, st[g].id, st[g].now)
    /\ markedAt' = [markedAt EXCEPT ![st[g].id] = st[g].now]
    /\ st' = [st EXCEPT ![g] = Idle]
    /\ UNCHANGED notStore
    /\ scan' = NoScan
    /\ UNCHANGED scanNow
    /\ ret' = Return(g, FALSE, FALSE, "none")
    /\ UNCHANGED <<clock, articleTTL, cleanupInterval, lastCleanup, cleanupMu, dbErrors>>

PutFail(g) ==
    /\ st[g].pc = "txn"
    /\ st[g].op = "mark"
    /\ dbErrors < MaxDbErrors
    /\ dbErrors' = dbErrors + 1
    /\ st' = [st EXCEPT ![g] = Idle]
    /\ UNCHANGED notStore
    /\ scan' = NoScan
    /\ UNCHANGED scanNow
    /\ ret' = Return(g, FALSE, TRUE, "none")
    /\ UNCHANGED <<clock, articleTTL, cleanupInterval, bucket, lastCleanup,
                   cleanupMu, markedAt>>

SeenArticle(g, id) == Call(g, "seen", id)
MarkArticle(g, id) == Call(g, "mark", id)

NextStore ==
    \/ Tick
    \/ \E g \in Callers, id \in Ids : SeenArticle(g, id)
    \/ \E g \in Callers, id \in Ids : MarkArticle(g, id)
    \/ \E g \in Callers : FastCheck(g)
    \/ \E g \in Callers : LockAndRecheck(g)
    \/ \E g \in Callers : ScanOk(g)
    \/ \E g \in Callers : ScanFail(g)
    \/ \E g \in Callers : LookupOk(g)
    \/ \E g \in Callers : LookupFail(g)
    \/ \E g \in Callers : PutOk(g)
    \/ \E g \in Callers : PutFail(g)

ParkedStore ==
    /\ clock = 0
    /\ articleTTL = 0
    /\ cleanupInterval = 0
    /\ bucket = <<>>
    /\ lastCleanup = 0
    /\ cleanupMu = NoOwner
    /\ st = <<>>
    /\ ret = NoRet
    /\ markedAt = <<>>
    /\ dbErrors = 0
    /\ scan = NoScan
    /\ scanNow = NoMark

-----------------------------------------------------------------------------
(* Fanout *)

NilSink == [id |-> "nil", type |-> "nil"]
SinkPool == {[id |-> "s1", type |-> "http"], [id |-> "s2", type |-> "sqs"]}

NilFanout == [isNil |-> TRUE, publishers |-> <<>>]
Nil == [isNil |-> TRUE, errs |-> <<>>]

\* Sequences over S of length at most n.
SeqUpTo(S, n) == UNION {[1 .. k -> S] : k \in 0 .. n}

\* errors.Join(errs...): nil when no error is given, else the errors in order.
Join(errs) == IF errs = <<>> THEN Nil ELSE [isNil |-> FALSE, errs |-> errs]

\* NewFanout: the publishers slice without its nil entries.
RECURSIVE NonNilSinks(_)
NonNilSinks(pubs) ==
    IF pubs = <<>> THEN <<>>
    ELSE IF Head(pubs) = NilSink THEN NonNilSinks(Tail(pubs))
    ELSE <<Head(pubs)>> \o NonNilSinks(Tail(pubs))

NewFanout(pubs) == [isNil |-> FALSE, publishers |-> NonNilSinks(pubs)]

\* fmt.Errorf("%s publisher[%s]: %w", p.Type(), p.ID(), err)
SinkError(p) == [type |-> p.type, id |-> p.id]

\* (mutant) fail fast: the loop stops at the first failing sink.
RECURSIVE FanoutLoopFailFast(_, _, _, _, _)
FanoutLoopFailFast(pubs, failed, i, successful, errs) ==
    IF i > Len(pubs) THEN [successful |-> successful, err |-> Join(errs)]
    ELSE IF failed[i]
         THEN [successful |-> successful, err |-> Join(Append(errs, SinkError(pubs[i])))]
         ELSE FanoutLoopFailFast(pubs, failed, i + 1, successful + 1, errs)

\* The loop of Fanout.Publish from sink i on: failed[i] says whether sink i
\* returns an error for this event.
RECURSIVE FanoutLoop(_, _, _, _, _)
FanoutLoop(pubs, failed, i, successful, errs) ==
    IF i > Len(pubs) THEN [successful |-> successful, err |-> Join(errs)]
    ELSE IF failed[i]
         THEN FanoutLoop(pubs, failed, i + 1, successful,
                         Append(errs, SinkError(pubs[i])))
         ELSE FanoutLoop(pubs, failed, i + 1, successful + 1, errs)

\* Fanout.Publish(ctx, evt): (successful, err).
FanoutPublish(f, failed) ==
    IF f.isNil \/ Len(f.publishers) = 0
    THEN [successful |-> 0, err |-> Nil]
    ELSE FanoutLoop(f.publishers, failed, 1, 0, <<>>)

\* (mutant) the loop stops after the first sink that fails.
InvokedUntilFailure(f, failed) ==
    IF f.isNil THEN {}
    ELSE {i \in 1 .. Len(f.publishers) : \A j \in 1 .. (i - 1) : ~failed[j]}

\* The sinks Fanout.Publish invokes for one event, failed[i] telling whether
\* sink i returns an error: the range loop has no break.
Invoked(f, failed) == IF f.isNil THEN {} ELSE 1 .. Len(f.publishers)

NoOutcome == <<>>
NoResult == [successful |-> 0 - 1, err |-> Nil]

InitFanout ==
    /\ fanout \in {NilFanout} \cup {NewFanout(c) : c \in SeqUpTo(SinkPool \cup {NilSink}, MaxSinks)}
    /\ fCalls = [i \in 1 .. Len(fanout.publishers) |-> 0]
    /\ fOut = NoOutcome
    /\ fRes = NoResult

ParkedFanout ==
    /\ fanout = NilFanout
    /\ fCalls = <<>>
    /\ fOut = NoOutcome
    /\ fRes = NoResult

\* One call of Fanout.Publish; every sink's outcome is chosen freely.
Publish ==
    /\ \A i \in DOMAIN fCalls : fCalls[i] < MaxCalls
    /\ \E failed \in [1 .. Len(fanout.publishers) -> BOOLEAN] :
          /\ fOut' = failed
          /\ fRes' = FanoutPublish(fanout, failed)
          /\ fCalls' = [i \in DOMAIN fCalls |->
                           IF i \in Invoked(fanout, failed) THEN fCalls[i] + 1
                           ELSE fCalls[i]]
    /\ UNCHANGED <<fanout, notFanout>>


-----------------------------------------------------------------------------
(* ProviderProcessor *)

ProviderID == "p1"
ArticleIds == {"a1", "a2"}

\* domain.Article: the identifier, and whether the enricher overlaid metadata.
Article(id) == [ID |-> id, enriched |-> FALSE]

\* What fetcher.Fetch can return: any list of articles up to the bound, up to
\* the renaming of identifiers (Process only compares and copies them), so
\* the first article of a list is "a1".
FetchResults ==
    {[i \in DOMAIN ids |-> Article(ids[i])] :
        ids \in {l \in SeqUpTo(ArticleIds, MaxArticles) : Len(l) > 0 => l[1] = "a1"}}

NoPublisher == [isNil |-> TRUE, publishers |-> <<"no publisher">>]
Publishers ==
    {NoPublisher, NilFanout, NewFanout(<<>>),
     NewFanout(<<[id |-> "s1", type |-> "http"]>>),
     NewFanout(<<[id |-> "s1", type |-> "http"], [id |-> "s2", type |-> "sqs"]>>)}

\* The error values Process returns.
NoError == [kind |-> "nil", articles |-> <<>>]
NotInitialized == [kind |-> "provider processor not initialized", articles |-> <<>>]
ResolveError == [kind |-> "resolve fetcher for provider", articles |-> <<>>]
FetchError == [kind |-> "fetch provider", articles |-> <<>>]
\* fmt.Errorf("publish provider %s articles: %w", cfg.ID, errors.Join(errs...))
PublishError(errs) == [kind |-> "publish provider articles", articles |-> errs]
Running == [kind |-> "running", articles |-> <<>>]

\* The contexts of the model: one that cannot be cancelled
\* (context.Background()), and a cancellable one before and after its cancel.
Contexts == {"background", "active", "cancelled"}

InitProcessCtx(ctx) ==
    /\ pCtx = ctx
    /\ proc \in [registry : BOOLEAN, scraper : BOOLEAN, deduper : BOOLEAN,
                 publisher : Publishers]
    /\ pPc = "idle"
    /\ pFetched = <<>>
    /\ pArticles = <<>>
    /\ pFresh = <<>>
    /\ pIdx = 0
    /\ pErrs = <<>>
    /\ pPublished = 0
    /\ pLog = <<>>
    /\ pRet = Running

InitProcess == InitProcessCtx("background")
InitProcessCancellable == InitProcessCtx("active")

ParkedProcess ==
    /\ pCtx = "background"
    /\ proc = [registry |-> FALSE, scraper |-> FALSE, deduper |-> FALSE,
               publisher |-> NoPublisher]
    /\ pPc = "parked"
    /\ pFetched = <<>>
    /\ pArticles = <<>>
    /\ pFresh = <<>>
    /\ pIdx = 0
    /\ pErrs = <<>>
    /\ pPublished = 0
    /\ pLog = <<>>
    /\ pRet = Running

\* The caller cancels ctx while Process runs.
CancelProcess ==
    /\ pCtx = "active"
    /\ pPc \notin {"done", "parked"}
    /\ pCtx' = "cancelled"
    /\ UNCHANGED <<proc, pPc, pFetched, pArticles, pFresh, pIdx, pErrs, pPublished, pLog, pRet>>
    /\ UNCHANGED notProcess

\* Process returns err.
ProcessReturns(err) ==
    /\ pPc' = "done"
    /\ pRet' = err

\* Process, entry: p == nil || p.registry == nil.
ProcessEnter ==
    /\ pPc = "idle"
    /\ IF proc.registry
       THEN pPc' = "resolve" /\ UNCHANGED pRet
       ELSE ProcessReturns(NotInitialized)
    /\ UNCHANGED <<proc, pCtx, pFetched, pArticles, pFresh, pIdx, pErrs, pPublished, pLog>>
    /\ UNCHANGED notProcess

\* (mutant) the fetch is attempted whether or not a fetcher was resolved.
AfterResolveAlwaysFetch(ok) == "fetch"

\* Where Process goes after p.registry.FetcherFor(cfg) answered.
AfterResolve(ok) == IF ok THEN "fetch" ELSE "done"

\* p.registry.FetcherFor(cfg)
ResolveFetcher ==
    /\ pPc = "resolve"
    /\ \E ok \in BOOLEAN :
          /\ pPc' = AfterResolve(ok)
          /\ pRet' = IF ok THEN pRet ELSE ResolveError
    /\ UNCHANGED <<proc, pCtx, pFetched, pArticles, pFresh, pIdx, pErrs, pPublished, pLog>>
    /\ UNCHANGED notProcess

\* (mutant) filterNewArticles runs whenever something was fetched.
AfterFetchIgnoresDeduper(p, arts) == IF Len(arts) > 0 THEN "filter" ELSE "enrich"

\* Where Process goes after the fetch: filterNewArticles runs only with a
\* deduper and a non-empty fetch result.
AfterFetch(p, arts) == IF p.deduper /\ Len(arts) > 0 THEN "filter" ELSE "enrich"

\* fetcher.Fetch(ctx, cfg) returns the articles.
FetchOk ==
    /\ pPc = "fetch"
    /\ \E arts \in FetchResults :
          /\ pFetched' = arts
          /\ pArticles' = arts
          /\ pPc' = AfterFetch(proc, arts)
    /\ pIdx' = 1
    /\ pLog' = Append(pLog, [k |-> "fetch", i |-> 0, id |-> ProviderID, n |-> 0, err |-> FALSE])
    /\ UNCHANGED <<proc, pCtx, pFresh, pErrs, pPublished, pRet>>
    /\ UNCHANGED notProcess

\* fetcher.Fetch(ctx, cfg) fails.
FetchFail ==
    /\ pPc = "fetch"
    /\ ProcessReturns(FetchError)
    /\ pLog' = Append(pLog, [k |-> "fetch", i |-> 0, id |-> ProviderID, n |-> 0, err |-> TRUE])
    /\ UNCHANGED <<proc, pCtx, pFetched, pArticles, pFresh, pIdx, pErrs, pPublished>>
    /\ UNCHANGED notProcess

\* (mutant) fail closed: an article is kept only when the lookup succeeded
\* and reported not seen.
KeepsFailClosed(seen, err) == ~err /\ ~seen

\* filterNewArticles, loop body: is the article appended to `fresh`?
Keeps(seen, err) == err \/ ~seen

\* (mutant) a kept article goes to the front of `fresh`.
KeptInFront(fresh, art) == <<art>> \o fresh

\* fresh = append(fresh, art)
Kept(fresh, art) == Append(fresh, art)

\* filterNewArticles: one iteration of the loop, SeenArticle answering
\* (seen, err); the last iteration returns `fresh` to Process.
FilterStep ==
    /\ pPc = "filter"
    /\ pIdx <= Len(pArticles)
    /\ \E seen \in BOOLEAN, err \in BOOLEAN :
          LET art == pArticles[pIdx]
              fresh == IF Keeps(seen, err) THEN Kept(pFresh, art) ELSE pFresh
          IN  /\ pLog' = Append(pLog, [k |-> "seen", i |-> pIdx, id |-> art.ID,
                                       n |-> IF seen THEN 1 ELSE 0, err |-> err])
              /\ IF pIdx = Len(pArticles)
                 THEN /\ pArticles' = fresh
                      /\ pFresh' = <<>>
                      /\ pIdx' = 1
                      /\ pPc' = "enrich"
                 ELSE /\ pFresh' = fresh
                      /\ pIdx' = pIdx + 1
                      /\ UNCHANGED <<pArticles, pPc>>
    /\ UNCHANGED <<proc, pCtx, pFetched, pErrs, pPublished, pRet>>
    /\ UNCHANGED notProcess

\* What scraper.Enrich returns: a slice of the same length in which every
\* slot is the original article or that article with metadata overlaid.
EnrichResults(arts) ==
    {[i \in DOMAIN arts |-> [arts[i] EXCEPT !.enriched = done[i]]] :
        done \in [DOMAIN arts -> BOOLEAN]}

\* (mutant) Process has no len(articles) == 0 return.
AfterEnrichNoEmptyCheck(p, arts) ==
    IF p.publisher = NoPublisher THEN "done" ELSE "publish"

\* Where Process goes after enrichment: it returns nil when no article is
\* left, and publishArticles returns (0, nil) without a publisher.
AfterEnrich(p, arts) ==
    IF Len(arts) = 0 \/ p.publisher = NoPublisher THEN "done" ELSE "publish"

\* What scraper.Enrich returns under ctx: with ctx cancelled at the call the
\* dispatch loop hands out no index and every slot is the original.
EnrichUnder(ctx, arts) == IF ctx = "cancelled" THEN {arts} ELSE EnrichResults(arts)

\* Process: the enrichment stage and the len(articles) == 0 return. A
\* cancellable ctx may be cancelled while Enrich runs; the logged call records
\* whether ctx was cancelled at the call (i) and at the return (err).
EnrichStage ==
    /\ pPc = "enrich"
    /\ \E out \in (IF proc.scraper THEN EnrichUnder(pCtx, pArticles) ELSE {pArticles}),
          cancel \in (IF proc.scraper /\ pCtx = "active" THEN BOOLEAN ELSE {FALSE}) :
          /\ pArticles' = out
          /\ pCtx' = IF cancel THEN "cancelled" ELSE pCtx
          /\ pPc' = AfterEnrich(proc, out)
          /\ pRet' = IF AfterEnrich(proc, out) = "done" THEN NoError ELSE pRet
          /\ pLog' = IF proc.scraper
                     THEN Append(pLog, [k |-> "enrich",
                                        i |-> IF pCtx = "cancelled" THEN 1 ELSE 0,
                                        id |-> ProviderID, n |-> Len(pArticles),
                                        err |-> cancel \/ pCtx = "cancelled"])
                     ELSE pLog
    /\ pIdx' = 1
    /\ UNCHANGED <<proc, pFetched, pFresh, pErrs, pPublished>>
    /\ UNCHANGED notProcess

\* (mutant) every article handed to the publisher is marked.
MarksWhateverTheOutcome(p, successful) == p.deduper

\* publishArticles: is MarkArticle called after this Publish?
Marks(p, successful) == successful > 0 /\ p.deduper

\* publishArticles: the article's entry in `errs`:
\* fmt.Errorf("article %s: %w", art.ID, err)
ArticleError(art, err) == [id |-> art.ID, cause |-> err]

\* (mutant) the loop of publishArticles stops when ctx is cancelled.
PublishLoopStopsOnCancel(ctx, idx, arts) == ctx # "cancelled" /\ idx <= Len(arts)

\* publishArticles: for _, art := range articles has another article.
PublishLoopContinues(ctx, idx, arts) == idx <= Len(arts)

\* (mutant) an article is recorded in `errs` only when no sink accepted it.
AfterPublishTotalFailureOnly(errs, art, res) ==
    IF res.successful > 0 \/ res.err.isNil THEN errs
    ELSE Append(errs, ArticleError(art, res.err))

\* publishArticles: `errs` after Publish returned res = (successful, err).
AfterPublish(errs, art, res) ==
    IF res.err.isNil THEN errs ELSE Append(errs, ArticleError(art, res.err))

\* publishArticles, loop body up to the mark: p.publisher.Publish(ctx, evt)
\* returns (successful, err).
PublishStep ==
    /\ pPc = "publish"
    /\ PublishLoopContinues(pCtx, pIdx, pArticles)
    /\ \E failed \in [1 .. Len(proc.publisher.publishers) -> BOOLEAN] :
          LET art == pArticles[pIdx]
              res == FanoutPublish(proc.publisher, failed)
          IN  /\ pLog' = Append(pLog, [k |-> "publish", i |-> pIdx, id |-> art.ID,
                                       n |-> res.successful, err |-> ~res.err.isNil])
              /\ pErrs' = AfterPublish(pErrs, art, res)
              /\ pPublished' = IF res.successful > 0 THEN pPublished + 1 ELSE pPublished
              /\ IF Marks(proc, res.successful)
                 THEN pPc' = "mark" /\ UNCHANGED pIdx
                 ELSE pIdx' = pIdx + 1 /\ UNCHANGED pPc
    /\ UNCHANGED <<proc, pCtx, pFetched, pArticles, pFresh, pRet>>
    /\ UNCHANGED notProcess

\* (mutant) a failed mark is appended to `errs`.
AfterMarkRecordsError(errs, art, markErr) ==
    IF markErr THEN Append(errs, ArticleError(art, Join(<<"mark failed">>))) ELSE errs

\* publishArticles: `errs` after MarkArticle returned markErr (it is logged).
AfterMark(errs, art, markErr) == errs

\* publishArticles, loop body: p.deduper.MarkArticle(art.ID); a failure is
\* logged and the loop goes on.
MarkStep ==
    /\ pPc = "mark"
    /\ \E err \in BOOLEAN :
          /\ pLog' = Append(pLog, [k |-> "mark", i |-> pIdx, id |-> pArticles[pIdx].ID,
                                   n |-> 0, err |-> err])
          /\ pErrs' = AfterMark(pErrs, pArticles[pIdx], err)
    /\ pIdx' = pIdx + 1
    /\ pPc' = "publish"
    /\ UNCHANGED <<proc, pCtx, pFetched, pArticles, pFresh, pPublished, pRet>>
    /\ UNCHANGED notProcess

\* (mutant) only the first article error is returned.
ProcessResultFirstOnly(errs) ==
    IF Join(errs).isNil THEN NoError ELSE PublishError(<<errs[1]>>)

\* What Process returns after publishArticles returned (published, Join(errs)).
ProcessResult(errs) == IF Join(errs).isNil THEN NoError ELSE PublishError(errs)

\* publishArticles returns; Process wraps its error or returns nil.
PublishReturn ==
    /\ pPc = "publish"
    /\ ~PublishLoopContinues(pCtx, pIdx, pArticles)
    /\ ProcessReturns(ProcessResult(pErrs))
    /\ UNCHANGED <<proc, pCtx, pFetched, pArticles, pFresh, pIdx, pErrs, pPublished, pLog>>
    /\ UNCHANGED notProcess

NextProcess ==
    \/ ProcessEnter
    \/ ResolveFetcher
    \/ FetchOk
    \/ FetchFail
    \/ FilterStep
    \/ EnrichStage
    \/ PublishStep
    \/ MarkStep
    \/ PublishReturn

NextProcessCtx ==
    \/ CancelProcess
    \/ ProcessEnter
    \/ ResolveFetcher
    \/ FetchOk
    \/ FetchFail
    \/ FilterStep
    \/ EnrichStage
    \/ PublishStep
    \/ MarkStep
    \/ PublishReturn


-----------------------------------------------------------------------------
(* Scraper.Enrich *)

maxArticleWorkers == 10
defaultRequestDelayMs == 500

Min(a, b) == IF a < b THEN a ELSE b

\* Provider.RequestDelay(), in milliseconds.
RequestDelay(ms) == IF ms <= 0 THEN defaultRequestDelayMs ELSE ms

\* URLs: empty, relative to a page, or absolute.
EmptyURL == [kind |-> "empty", host |-> "", path |-> "", query |-> 0]
RelativeURL == [kind |-> "relative", host |-> "", path |-> "/img/og.png", query |-> 0]
ArticleURL(i) == [kind |-> "absolute", host |-> "example.com", path |-> "/articles", query |-> i]

\* resolveURL(raw, base) for well-formed URLs.
resolveURL(raw, base) ==
    IF raw = EmptyURL THEN EmptyURL
    ELSE IF raw.kind = "absolute" THEN raw
    ELSE [kind |-> "absolute", host |-> base.host, path |-> raw.path, query |-> raw.query]

\* The article at index i of a batch, as fetched.
Fetched(i) ==
    [ID |-> i, Title |-> "feed title", URL |-> ArticleURL(i),
     Description |-> "feed description", ImageURL |-> EmptyURL]

\* The zero value of domain.Article.
ZeroArticle ==
    [ID |-> 0, Title |-> "", URL |-> EmptyURL, Description |-> "", ImageURL |-> EmptyURL]

\* pageMeta values a page can yield.
PageMetas ==
    {[Title |-> "", Description |-> "", ImageURL |-> EmptyURL],
     [Title |-> "og title", Description |-> "", ImageURL |-> EmptyURL],
     [Title |-> "og title", Description |-> "og description", ImageURL |-> RelativeURL]}

\* fetchAndParse, after parseMeta: `updated`.
Overlay(art, meta) ==
    LET a1 == IF meta.Title # "" THEN [art EXCEPT !.Title = meta.Title] ELSE art
        a2 == IF meta.Description # ""
              THEN [a1 EXCEPT !.Description = meta.Description] ELSE a1
    IN  IF meta.ImageURL # EmptyURL
        THEN [a2 EXCEPT !.ImageURL = resolveURL(meta.ImageURL, art.URL)] ELSE a2

\* pageMeta{}: what parseMeta returns with an error.
NoMeta == [Title |-> "", Description |-> "", ImageURL |-> EmptyURL]

\* How one fetchAndParse call ends: client.Get fails, the status is not 200,
\* parseMeta fails, or the article is returned with the metadata overlaid.
Outcomes == {"fetch error", "status", "parse error", "ok"}

\* The page of a response whose status is not 200 has metadata of its own.
ErrorPageMeta == [Title |-> "og title", Description |-> "", ImageURL |-> EmptyURL]

\* The pageMeta the response body would yield: a page came back only when the
\* fetch succeeded, and parseMeta returned its metadata only without error.
MetasOf(outcome) ==
    CASE outcome = "ok" -> PageMetas
      [] outcome = "status" -> {ErrorPageMeta}
      [] OTHER -> {NoMeta}

\* (mutant) a response with a status other than 200 is parsed like any page.
FailedIgnoresStatus(outcome) == outcome \in {"fetch error", "parse error"}

\* fetchAndParse returns a non-nil error.
Failed(outcome) == outcome # "ok"

\* What the worker stores in out[idx]: the original article when
\* fetchAndParse failed, else the article it returned.
Processed(art, failed, meta) == IF failed THEN art ELSE Overlay(art, meta)

\* (mutant) `out` is allocated and not seeded with the originals.
OutNotSeeded(arts) == [i \in DOMAIN arts |-> ZeroArticle]

\* out := make(...); copy(out, articles)
OutSeeded(arts) == arts

NoTicks == [delivered |-> 0, taken |-> 0]

\* eRet before Enrich returns (eDisp tells whether it has).
NotReturned == <<>>
NoHist ==
    [claimed |-> "no", fetch |-> "no", result |-> ZeroArticle,
     claims |-> 0, writes |-> 0, writer |-> 0, outcome |-> "none", meta |-> NoMeta,
     tick |-> 0]

\* (mutant) every worker stores its result in the first slot.
SlotFirst(idx) == 1

\* The slot of `out` the worker holding idx stores to: out[idx].
Slot(idx) == idx

\* (mutant) one worker per article whatever the maximum.
workerCountUncapped(arts, cap) == Len(arts)

\* Enrich: workerCount := min(len(articles), maxArticleWorkers)
workerCount(arts, cap) == Min(Len(arts), cap)

\* The state when Enrich is called, the worker maximum being one of caps.
InitEnrichCap(caps) ==
    /\ eCap \in caps
    /\ eArticles \in {[i \in 1 .. n |-> Fetched(i)] : n \in 0 .. MaxBatch}
    /\ eDelayMs \in {0, 1}
    /\ eOut = <<>>
    /\ eTick = 0
    /\ eLim = NoTicks
    /\ eCtx \in {"live", "cancelled"}
    /\ eDisp = [pc |-> "start", idx |-> 1]
    /\ eJobs = "open"
    /\ eW = <<>>
    /\ eHist = [i \in DOMAIN eArticles |-> NoHist]
    /\ eRet = NotReturned

\* The state when Enrich is called.
InitEnrich == InitEnrichCap({maxArticleWorkers})

\* The same with the worker maximum scaled down, so that batches larger
\* than the pool fit the bound on the batch.
InitEnrichPool == InitEnrichCap((1 .. MaxPool) \cup {maxArticleWorkers})

ParkedEnrich ==
    /\ eArticles = <<>>
    /\ eCap = 0
    /\ eDelayMs = 0
    /\ eOut = <<>>
    /\ eTick = 0
    /\ eLim = NoTicks
    /\ eCtx = "live"
    /\ eDisp = [pc |-> "parked", idx |-> 1]
    /\ eJobs = "open"
    /\ eW = <<>>
    /\ eHist = <<>>
    /\ eRet = NotReturned

\* The limiter exists when the delay is positive.
HasLimiter == RequestDelay(eDelayMs) > 0

\* The context is cancelled.
CancelEnrich ==
    /\ eCtx = "live"
    /\ eDisp.pc \notin {"parked", "returned"}
    /\ eCtx' = "cancelled"
    /\ UNCHANGED <<eArticles, eCap, eDelayMs, eOut, eTick, eLim, eDisp, eJobs, eW, eHist, eRet>>
    /\ UNCHANGED notEnrich

\* The ticker delivers a tick; ticker.C holds at most one.
TickerFires ==
    /\ HasLimiter
    /\ eDisp.pc \in {"loop", "send", "wait"}
    /\ eTick = 0
    /\ eTick' = 1
    /\ eLim' = [eLim EXCEPT !.delivered = @ + 1]
    /\ UNCHANGED <<eArticles, eCap, eDelayMs, eOut, eCtx, eDisp, eJobs, eW, eHist, eRet>>
    /\ UNCHANGED notEnrich

\* Enrich up to the dispatch loop: seed `out`, return it for an empty batch,
\* else start the ticker and the workers.
EnrichStart ==
    /\ eDisp.pc = "start"
    /\ eOut' = OutSeeded(eArticles)
    /\ IF Len(eArticles) = 0
       THEN /\ eRet' = OutSeeded(eArticles)
            /\ eDisp' = [eDisp EXCEPT !.pc = "returned"]
            /\ UNCHANGED eW
       ELSE /\ eW' = [w \in 1 .. workerCount(eArticles, eCap) |-> [pc |-> "recv", idx |-> 0]]
            /\ eDisp' = [eDisp EXCEPT !.pc = "loop"]
            /\ UNCHANGED eRet
    /\ UNCHANGED <<eArticles, eCap, eDelayMs, eTick, eLim, eCtx, eJobs, eHist>>
    /\ UNCHANGED notEnrich

\* The dispatch loop, before a send: the range ends or ctx.Err() != nil
\* breaks it, and jobCh is closed; else the loop goes on to send idx.
DispatchCheck ==
    /\ eDisp.pc = "loop"
    /\ IF eDisp.idx > Len(eArticles) \/ eCtx = "cancelled"
       THEN /\ eJobs' = "closed"
            /\ eDisp' = [eDisp EXCEPT !.pc = "wait"]
       ELSE /\ eDisp' = [eDisp EXCEPT !.pc = "send"]
            /\ UNCHANGED eJobs
    /\ UNCHANGED <<eArticles, eCap, eDelayMs, eOut, eTick, eLim, eCtx, eW, eHist, eRet>>
    /\ UNCHANGED notEnrich

\* jobCh <- idx meets a worker's receive (the channel is unbuffered).
Handoff(w) ==
    /\ eDisp.pc = "send"
    /\ eW[w].pc = "recv"
    /\ eW' = [eW EXCEPT ![w] = [pc |-> "check", idx |-> eDisp.idx]]
    /\ eHist' = [eHist EXCEPT ![eDisp.idx].claimed =
                    IF eCtx = "cancelled" THEN "after cancel" ELSE "before cancel",
                                ![eDisp.idx].claims = @ + 1]
    /\ eDisp' = [pc |-> "loop", idx |-> eDisp.idx + 1]
    /\ UNCHANGED <<eArticles, eCap, eDelayMs, eOut, eTick, eLim, eCtx, eJobs, eRet>>
    /\ UNCHANGED notEnrich

\* articleWorker: the range over jobCh ends when the channel is closed.
WorkerDrained(w) ==
    /\ eW[w].pc = "recv"
    /\ eJobs = "closed"
    /\ eW' = [eW EXCEPT ![w].pc = "exit"]
    /\ UNCHANGED <<eArticles, eCap, eDelayMs, eOut, eTick, eLim, eCtx, eDisp, eJobs, eHist, eRet>>
    /\ UNCHANGED notEnrich

\* (mutant) the worker goes to the fetch whether or not there is a limiter.
GateOpen(limited) == "fetch"

\* articleWorker: if limiter != nil the worker waits at the select.
Gate(limited) == IF limited THEN "limit" ELSE "fetch"

\* articleWorker, top of the loop body: return if ctx.Err() != nil, else go
\* on to the limiter (when there is one) or straight to the fetch.
WorkerCheck(w) ==
    /\ eW[w].pc = "check"
    /\ eW' = [eW EXCEPT ![w].pc =
                 IF eCtx = "cancelled" THEN "exit" ELSE Gate(HasLimiter)]
    /\ UNCHANGED <<eArticles, eCap, eDelayMs, eOut, eTick, eLim, eCtx, eDisp, eJobs, eHist, eRet>>
    /\ UNCHANGED notEnrich

\* articleWorker, the select: case <-ctx.Done() returns.
WorkerSelectsDone(w) ==
    /\ eW[w].pc = "limit"
    /\ eCtx = "cancelled"
    /\ eW' = [eW EXCEPT ![w].pc = "exit"]
    /\ UNCHANGED <<eArticles, eCap, eDelayMs, eOut, eTick, eLim, eCtx, eDisp, eJobs, eHist, eRet>>
    /\ UNCHANGED notEnrich

\* articleWorker, the select: case <-limiter takes the tick (select picks
\* either ready case when both are ready).
WorkerSelectsTick(w) ==
    /\ eW[w].pc = "limit"
    /\ eTick = 1
    /\ eTick' = 0
    /\ eLim' = [eLim EXCEPT !.taken = @ + 1]
    /\ eW' = [eW EXCEPT ![w].pc = "fetch"]
    /\ eHist' = [eHist EXCEPT ![eW[w].idx].tick = @ + 1]
    /\ UNCHANGED <<eArticles, eCap, eDelayMs, eOut, eCtx, eDisp, eJobs, eRet>>
    /\ UNCHANGED notEnrich

\* articleWorker calls fetchAndParse: the page fetch starts.
FetchStarts(w) ==
    /\ eW[w].pc = "fetch"
    /\ eW' = [eW EXCEPT ![w].pc = "fetching"]
    /\ eHist' = [eHist EXCEPT ![eW[w].idx].fetch =
                    IF eCtx = "cancelled" THEN "after cancel" ELSE "before cancel"]
    /\ UNCHANGED <<eArticles, eCap, eDelayMs, eOut, eTick, eLim, eCtx, eDisp, eJobs, eRet>>
    /\ UNCHANGED notEnrich

\* fetchAndParse returns (an error, or the article with the page's metadata
\* overlaid) and the worker stores the slot.
FetchReturns(w) ==
    /\ eW[w].pc = "fetching"
    /\ \E outcome \in Outcomes :
          \E meta \in MetasOf(outcome) :
             LET idx == eW[w].idx
                 res == Processed(eArticles[idx], Failed(outcome), meta)
             IN  /\ eOut' = [eOut EXCEPT ![Slot(idx)] = res]
                 /\ eHist' = [eHist EXCEPT ![idx].result = res,
                                            ![idx].outcome = outcome,
                                            ![idx].meta = meta,
                                            ![Slot(idx)].writes = @ + 1,
                                            ![Slot(idx)].writer = idx]
    /\ eW' = [eW EXCEPT ![w] = [pc |-> "recv", idx |-> 0]]
    /\ UNCHANGED <<eArticles, eCap, eDelayMs, eTick, eLim, eCtx, eDisp, eJobs, eRet>>
    /\ UNCHANGED notEnrich

\* wg.Wait() returns once every worker has returned; Enrich returns `out`.
EnrichReturns ==
    /\ eDisp.pc = "wait"
    /\ \A w \in DOMAIN eW : eW[w].pc = "exit"
    /\ eRet' = eOut
    /\ eDisp' = [eDisp EXCEPT !.pc = "returned"]
    /\ UNCHANGED <<eArticles, eCap, eDelayMs, eOut, eTick, eLim, eCtx, eJobs, eW, eHist>>
    /\ UNCHANGED notEnrich

NextEnrich ==
    \/ CancelEnrich
    \/ TickerFires
    \/ EnrichStart
    \/ DispatchCheck
    \/ \E w \in DOMAIN eW : Handoff(w)
    \/ \E w \in DOMAIN eW : WorkerDrained(w)
    \/ \E w \in DOMAIN eW : WorkerCheck(w)
    \/ \E w \in DOMAIN eW : WorkerSelectsDone(w)
    \/ \E w \in DOMAIN eW : WorkerSelectsTick(w)
    \/ \E w \in DOMAIN eW : FetchStarts(w)
    \/ \E w \in DOMAIN eW : FetchReturns(w)
    \/ EnrichReturns


-----------------------------------------------------------------------------
(* Service.Run, Service.runAll, Service.worker *)

maxProviderWorkers == 10

\* What Run returns.
RunNotReturned == [kind |-> "not returned", errs |-> <<>>]
RunNil == [kind |-> "nil", errs |-> <<>>]
ErrNotInitialized == [kind |-> "crawler service is not initialized", errs |-> <<>>]
ErrNoProviders == [kind |-> "no providers configured for crawling", errs |-> <<>>]
Joined(errs) == [kind |-> "joined", errs |-> errs]

\* The error Process returned for provider p.
ProviderError(p) == [provider |-> p, msg |-> "process failed"]
\* An error a worker would send for a unit it skipped.
CancelError(p) == [provider |-> p, msg |-> "context canceled"]

\* (mutant) Run without the check of the provider list.
RunPrecheckNoEmptyCheck(svc, cfgs) ==
    IF svc # "constructed" THEN ErrNotInitialized ELSE RunNil

\* Run, before runAll: the error it returns at once, or RunNil to go on.
RunPrecheck(svc, cfgs) ==
    IF svc # "constructed" THEN ErrNotInitialized
    ELSE IF Len(cfgs) = 0 THEN ErrNoProviders
    ELSE RunNil

\* (mutant) Run returns the first error only.
RunResultFirstOnly(errs) == IF Len(errs) > 0 THEN Joined(<<errs[1]>>) ELSE RunNil

\* Run, after runAll returned errs.
RunResult(errs) == IF Len(errs) > 0 THEN Joined(errs) ELSE RunNil

\* (mutant) a worker that finds the context cancelled reports it.
SkipReportsCancel(ch, p) == Append(ch, CancelError(p))

\* worker: errCh after the worker found the context cancelled and returned.
Skip(ch, p) == ch

NoRun == [handed |-> 0, called |-> FALSE, calls |-> 0, result |-> "none"]

\* (mutant) one worker per provider, whatever the maximum.
RunWorkerCountUncapped(cfgs, cap) == Len(cfgs)

\* runAll: workerCount := min(len(cfgs), maxProviderWorkers)
RunWorkerCount(cfgs, cap) == Min(Len(cfgs), cap)

\* (mutant) the dispatch loop does not move on to the next provider.
SameProvider(idx) == idx

\* runAll, dispatch loop: the range moves on to the next provider.
NextProvider(idx) == idx + 1

\* The state when Run is called, the worker maximum being one of caps.
InitRunCap(caps) ==
    /\ rSvc \in {"constructed", "nil", "no processor"}
    /\ rCap \in caps
    /\ rCfgs \in {[i \in 1 .. n |-> i] : n \in 0 .. MaxProviders}
    /\ rCtx \in {"live", "cancelled"}
    /\ rPre = (rCtx = "cancelled")
    /\ rDisp = [pc |-> "start", idx |-> 1]
    /\ rCfgCh = "open"
    /\ rW = <<>>
    /\ rErrCh = <<>>
    /\ rErrClosed = FALSE
    /\ rHist = [i \in DOMAIN rCfgs |-> NoRun]
    /\ rRet = RunNotReturned

\* The state when Run is called.
InitRun == InitRunCap({maxProviderWorkers})

\* The same with the worker maximum as it is or scaled down, so that
\* provider lists longer than the pool fit the bound on the list.
InitRunPool == InitRunCap((1 .. MaxPool) \cup {maxProviderWorkers})

ParkedRun ==
    /\ rSvc = "nil"
    /\ rCap = 0
    /\ rCfgs = <<>>
    /\ rCtx = "live"
    /\ rPre = FALSE
    /\ rDisp = [pc |-> "parked", idx |-> 1]
    /\ rCfgCh = "open"
    /\ rW = <<>>
    /\ rErrCh = <<>>
    /\ rErrClosed = FALSE
    /\ rHist = <<>>
    /\ rRet = RunNotReturned

\* The context is cancelled.
CancelRun ==
    /\ rCtx = "live"
    /\ rDisp.pc \notin {"parked", "returned"}
    /\ rCtx' = "cancelled"
    /\ UNCHANGED <<rSvc, rCap, rCfgs, rPre, rDisp, rCfgCh, rW, rErrCh, rErrClosed, rHist, rRet>>
    /\ UNCHANGED notRun

\* Run up to the dispatch loop of runAll: the two checks; then runAll returns
\* nil for a worker count of zero, else starts the workers.
RunEnter ==
    /\ rDisp.pc = "start"
    /\ IF RunPrecheck(rSvc, rCfgs) # RunNil
       THEN /\ rRet' = RunPrecheck(rSvc, rCfgs)
            /\ rDisp' = [rDisp EXCEPT !.pc = "returned"]
            /\ UNCHANGED rW
       ELSE IF RunWorkerCount(rCfgs, rCap) = 0
       THEN /\ rRet' = RunResult(<<>>)
            /\ rDisp' = [rDisp EXCEPT !.pc = "returned"]
            /\ UNCHANGED rW
       ELSE /\ rW' = [w \in 1 .. RunWorkerCount(rCfgs, rCap) |->
                          [pc |-> "recv", cfg |-> 0]]
            /\ rDisp' = [rDisp EXCEPT !.pc = "loop"]
            /\ UNCHANGED rRet
    /\ UNCHANGED <<rSvc, rCap, rCfgs, rCtx, rPre, rCfgCh, rErrCh, rErrClosed, rHist>>
    /\ UNCHANGED notRun

\* runAll, the dispatch loop before a send: the range ends or ctx.Err() != nil
\* breaks it, and cfgCh is closed; else the loop goes on to send the provider.
RunDispatchCheck ==
    /\ rDisp.pc = "loop"
    /\ IF rDisp.idx > Len(rCfgs) \/ rCtx = "cancelled"
       THEN /\ rCfgCh' = "closed"
            /\ rDisp' = [rDisp EXCEPT !.pc = "wait"]
       ELSE /\ rDisp' = [rDisp EXCEPT !.pc = "send"]
            /\ UNCHANGED rCfgCh
    /\ UNCHANGED <<rSvc, rCap, rCfgs, rCtx, rPre, rW, rErrCh, rErrClosed, rHist, rRet>>
    /\ UNCHANGED notRun

\* cfgCh <- cfg meets a worker's receive (the channel is unbuffered).
RunHandoff(w) ==
    /\ rDisp.pc = "send"
    /\ rW[w].pc = "recv"
    /\ rW' = [rW EXCEPT ![w] = [pc |-> "check", cfg |-> rCfgs[rDisp.idx]]]
    /\ rHist' = [rHist EXCEPT ![rCfgs[rDisp.idx]].handed = @ + 1]
    /\ rDisp' = [pc |-> "loop", idx |-> NextProvider(rDisp.idx)]
    /\ UNCHANGED <<rSvc, rCap, rCfgs, rCtx, rPre, rCfgCh, rErrCh, rErrClosed, rRet>>
    /\ UNCHANGED notRun

\* worker: the range over cfgCh ends when the channel is closed.
RunWorkerDrained(w) ==
    /\ rW[w].pc = "recv"
    /\ rCfgCh = "closed"
    /\ rW' = [rW EXCEPT ![w].pc = "exit"]
    /\ UNCHANGED <<rSvc, rCap, rCfgs, rCtx, rPre, rDisp, rCfgCh, rErrCh, rErrClosed, rHist, rRet>>
    /\ UNCHANGED notRun

\* worker, top of the loop body: return if ctx.Err() != nil, else call Process.
RunWorkerCheck(w) ==
    /\ rW[w].pc = "check"
    /\ IF rCtx = "cancelled"
       THEN /\ rW' = [rW EXCEPT ![w].pc = "exit"]
            /\ rErrCh' = Skip(rErrCh, rW[w].cfg)
            /\ UNCHANGED rHist
       ELSE /\ rW' = [rW EXCEPT ![w].pc = "process"]
            /\ rHist' = [rHist EXCEPT ![rW[w].cfg].called = TRUE,
                                       ![rW[w].cfg].calls = @ + 1]
            /\ UNCHANGED rErrCh
    /\ UNCHANGED <<rSvc, rCap, rCfgs, rCtx, rPre, rDisp, rCfgCh, rErrClosed, rRet>>
    /\ UNCHANGED notRun

\* (mutant) errCh has room for one error.
ErrChCapacityOne(cfgs) == 1

\* errCh := make(chan error, len(cfgs))
ErrChCapacity(cfgs) == Len(cfgs)

\* Process returns nil or an error; the worker sends the error to errCh (the
\* send waits while the buffer is full and panics on a closed channel) and
\* receives again.
ProcessDone(w) ==
    /\ rW[w].pc = "process"
    /\ \E failed \in BOOLEAN :
          /\ failed /\ ~rErrClosed => Len(rErrCh) < ErrChCapacity(rCfgs)
          /\ rErrCh' = IF failed /\ ~rErrClosed
                       THEN Append(rErrCh, ProviderError(rW[w].cfg)) ELSE rErrCh
          /\ rHist' = [rHist EXCEPT ![rW[w].cfg].result = IF failed THEN "error" ELSE "nil"]
          /\ rW' = [rW EXCEPT ![w] = IF failed /\ rErrClosed
                                     THEN [pc |-> "panic", cfg |-> rW[w].cfg]
                                     ELSE [pc |-> "recv", cfg |-> 0]]
    /\ UNCHANGED <<rSvc, rCap, rCfgs, rCtx, rPre, rDisp, rCfgCh, rErrClosed, rRet>>
    /\ UNCHANGED notRun

\* (mutant) runAll does not wait for the workers.
NoWait(ws) == TRUE

\* wg.Wait() returns: every worker has called wg.Done().
WaitDone(ws) == \A w \in DOMAIN ws : ws[w].pc = "exit"

\* wg.Wait() returns once every worker has returned; runAll closes and
\* drains errCh and Run joins the errors.
RunReturns ==
    /\ rDisp.pc = "wait"
    /\ WaitDone(rW)
    /\ rErrClosed' = TRUE
    /\ rRet' = RunResult(rErrCh)
    /\ rDisp' = [rDisp EXCEPT !.pc = "returned"]
    /\ UNCHANGED <<rSvc, rCap, rCfgs, rCtx, rPre, rCfgCh, rW, rErrCh, rHist>>
    /\ UNCHANGED notRun

NextRun ==
    \/ CancelRun
    \/ RunEnter
    \/ RunDispatchCheck
    \/ \E w \in DOMAIN rW : RunHandoff(w)
    \/ \E w \in DOMAIN rW : RunWorkerDrained(w)
    \/ \E w \in DOMAIN rW : RunWorkerCheck(w)
    \/ \E w \in DOMAIN rW : ProcessDone(w)
    \/ RunReturns


-----------------------------------------------------------------------------
(* NewStore and noopStore *)

\* A store type as configured: its text in lower case without surrounding
\* white space, whether it was written in upper case, whether it was padded.
StoreTypes ==
    [text : {"", "none", "disabled", "bbolt", "redis"}, upper : BOOLEAN, padded : BOOLEAN]

\* strings.ToLower and strings.TrimSpace.
ToLower(t) == [t EXCEPT !.upper = FALSE]
TrimSpace(t) == [t EXCEPT !.padded = FALSE]

\* A string literal of the source.
Literal(text) == [text |-> text, upper |-> FALSE, padded |-> FALSE]

Paths == {Literal(""), [text |-> "", upper |-> FALSE, padded |-> TRUE], Literal("cache.db")}

\* (mutant) the switch of NewStore without the "disabled" case.
NewStoreWithoutDisabled(typ, path) ==
    LET t == TrimSpace(ToLower(typ))
    IN  IF t \in {Literal(""), Literal("none")} THEN "noop"
        ELSE IF t = Literal("bbolt")
        THEN (IF TrimSpace(path) = Literal("") THEN "bbolt storage requires a path"
              ELSE "bolt")
        ELSE "unsupported storage type"

\* NewStore(typ, path, opts): the store it returns, or its error.
NewStore(typ, path) ==
    LET t == TrimSpace(ToLower(typ))
    IN  IF t \in {Literal(""), Literal("none"), Literal("disabled")} THEN "noop"
        ELSE IF t = Literal("bbolt")
        THEN (IF TrimSpace(path) = Literal("") THEN "bbolt storage requires a path"
              ELSE "bolt")
        ELSE "unsupported storage type"

\* noopStore.SeenArticle and noopStore.MarkArticle.
NoopSeenArticle(id) == [op |-> "seen", id |-> id, seen |-> FALSE, err |-> FALSE]
NoopMarkArticle(id) == [op |-> "mark", id |-> id, seen |-> FALSE, err |-> FALSE]
NoCall == [op |-> "none", id |-> "none", seen |-> FALSE, err |-> FALSE]

InitNewStore ==
    /\ nTyp \in StoreTypes
    /\ nPath \in Paths
    /\ nStore = "unset"
    /\ nMarked = {}
    /\ nCalls = 0
    /\ nRet = NoCall

ParkedNewStore ==
    /\ nTyp = Literal("")
    /\ nPath = Literal("")
    /\ nStore = "parked"
    /\ nMarked = {}
    /\ nCalls = 0
    /\ nRet = NoCall

\* NewStore is called.
NewStoreCall ==
    /\ nStore = "unset"
    /\ nStore' = NewStore(nTyp, nPath)
    /\ UNCHANGED <<nTyp, nPath, nMarked, nCalls, nRet>>
    /\ UNCHANGED notNewStore

\* SeenArticle(id) on the no-op store.
NoopSeen(id) ==
    /\ nStore = "noop"
    /\ nCalls < MaxStoreCalls
    /\ nCalls' = nCalls + 1
    /\ nRet' = NoopSeenArticle(id)
    /\ UNCHANGED <<nTyp, nPath, nStore, nMarked>>
    /\ UNCHANGED notNewStore

\* MarkArticle(id) on the no-op store.
NoopMark(id) ==
    /\ nStore = "noop"
    /\ nCalls < MaxStoreCalls
    /\ nCalls' = nCalls + 1
    /\ nMarked' = nMarked \cup {id}
    /\ nRet' = NoopMarkArticle(id)
    /\ UNCHANGED <<nTyp, nPath, nStore>>
    /\ UNCHANGED notNewStore

NextNewStore ==
    \/ NewStoreCall
    \/ \E id \in Ids : NoopSeen(id)
    \/ \E id \in Ids : NoopMark(id)


-----------------------------------------------------------------------------
(* Harvester.Run: the crawl loop around Service.Run *)

NoTicksYet == [delivered |-> 0, taken |-> 0]
NoOps == [open |-> 0, closed |-> 0]

\* What one runOnce returned, or "running" while it has not.
PassResults == {"running", "nil", "error"}

\* The passes that have not returned.
InFlight(passes) == {i \in DOMAIN passes : passes[i].err = "running"}

\* A pass begun by the tick-th tick taken (0: the initial crawl) under ctx.
NewPass(tick, ctx) == [tick |-> tick, late |-> ctx = "cancelled", err |-> "running"]

\* (mutant) runOnce started with a go statement: the loop goes on at once.
RunOnceSpawned(kind) == "select"

\* Where Run is while runOnce executes: runOnce, and Service.Run inside it,
\* are plain calls, so Run waits in the call.
RunOnceCall(kind) == kind

\* (mutant) a failed crawl ends the loop.
ContinuesUnlessError(err) == ~err

\* Whether the loop goes on after a pass: the error is logged, nothing else.
Continues(err) == TRUE

\* closeStore: Close on the store, when there is one.
closeStore(store) == IF store = "none" THEN store ELSE "closed"

\* A harvester as NewHarvester builds it: crawlService and store set, a
\* registry that LoadRegistry accepted (at least one provider), a positive
\* crawl interval.  Run has not been called.
InitHarvester ==
    /\ hPc = "start"
    /\ hCtx = "active"
    /\ hTicker = "none"
    /\ hTick = 0
    /\ hTicks = NoTicksYet
    /\ hPasses = << >>
    /\ hLogged = 0
    /\ hStore = "open"
    /\ hOps = NoOps
    /\ hRet = "none"

ParkedHarvester ==
    /\ hPc = "parked"
    /\ hCtx = "active"
    /\ hTicker = "none"
    /\ hTick = 0
    /\ hTicks = NoTicksYet
    /\ hPasses = << >>
    /\ hLogged = 0
    /\ hStore = "open"
    /\ hOps = NoOps
    /\ hRet = "none"

\* The signal context is cancelled (SIGINT / SIGTERM), at any moment before
\* Run has returned.
HarvesterCancel ==
    /\ hPc \notin {"parked", "returned"}
    /\ hCtx = "active"
    /\ hCtx' = "cancelled"
    /\ UNCHANGED <<hPc, hTicker, hTick, hTicks, hPasses, hLogged, hStore, hOps, hRet>>
    /\ UNCHANGED notHarvester

\* Run is called: closeStore is deferred, the providers are read, and the
\* initial crawl starts without a look at ctx.
RunStart ==
    /\ hPc = "start"
    /\ hPasses' = Append(hPasses, NewPass(0, hCtx))
    /\ hPc' = RunOnceCall("first")
    /\ UNCHANGED <<hCtx, hTicker, hTick, hTicks, hLogged, hStore, hOps, hRet>>
    /\ UNCHANGED notHarvester

\* A pass in flight issues a SeenArticle or MarkArticle on h.store.
PassStoreOp ==
    /\ hPc \notin {"parked"}
    /\ InFlight(hPasses) # {}
    /\ hOps.open + hOps.closed < MaxStoreCalls
    /\ hOps' = IF hStore = "closed" THEN [hOps EXCEPT !.closed = @ + 1]
               ELSE [hOps EXCEPT !.open = @ + 1]
    /\ UNCHANGED <<hPc, hCtx, hTicker, hTick, hTicks, hPasses, hLogged, hStore, hRet>>
    /\ UNCHANGED notHarvester

\* runOnce returns, with the aggregated error of Service.Run or nil.  An
\* error is logged; after the initial crawl the ticker is created.
PassReturns ==
    /\ hPc \notin {"parked"}
    /\ \E i \in InFlight(hPasses), err \in BOOLEAN :
          /\ hPasses' = [hPasses EXCEPT ![i].err = IF err THEN "error" ELSE "nil"]
          /\ hLogged' = IF err THEN hLogged + 1 ELSE hLogged
          /\ IF Continues(err)
             THEN /\ hPc' = IF hPc \in {"first", "scheduled"} THEN "select" ELSE hPc
                  /\ hTicker' = IF hPc = "first" THEN "running" ELSE hTicker
                  /\ UNCHANGED <<hStore, hRet>>
             ELSE /\ hPc' = "returned"
                  /\ hTicker' = IF hTicker = "running" THEN "stopped" ELSE hTicker
                  /\ hStore' = closeStore(hStore)
                  /\ hRet' = "error"
    /\ UNCHANGED <<hCtx, hTick, hTicks, hOps>>
    /\ UNCHANGED notHarvester

\* The crawl interval elapses: the ticker puts a tick in its channel, which
\* holds one; a tick that finds the channel full is dropped.
HarvesterTickerFires ==
    /\ hTicker = "running"
    /\ hTick = 0
    /\ hTicks.delivered < MaxPasses
    /\ hTick' = 1
    /\ hTicks' = [hTicks EXCEPT !.delivered = @ + 1]
    /\ UNCHANGED <<hPc, hCtx, hTicker, hPasses, hLogged, hStore, hOps, hRet>>
    /\ UNCHANGED notHarvester

\* select takes case <-ticker.C: the next crawl starts.  select chooses
\* among its ready cases, so a cancelled ctx does not rule this case out.
SelectTick ==
    /\ hPc = "select"
    /\ hTick = 1
    /\ hTick' = 0
    /\ hTicks' = [hTicks EXCEPT !.taken = @ + 1]
    /\ hPasses' = Append(hPasses, NewPass(hTicks.taken + 1, hCtx))
    /\ hPc' = RunOnceCall("scheduled")
    /\ UNCHANGED <<hCtx, hTicker, hLogged, hStore, hOps, hRet>>
    /\ UNCHANGED notHarvester

\* select takes case <-ctx.Done(): Run returns nil, and the deferred
\* ticker.Stop and closeStore run.
SelectDone ==
    /\ hPc = "select"
    /\ hCtx = "cancelled"
    /\ hPc' = "returned"
    /\ hRet' = "nil"
    /\ hTicker' = IF hTicker = "running" THEN "stopped" ELSE hTicker
    /\ hStore' = closeStore(hStore)
    /\ UNCHANGED <<hCtx, hTick, hTicks, hPasses, hLogged, hOps>>
    /\ UNCHANGED notHarvester

NextHarvester ==
    \/ HarvesterCancel
    \/ RunStart
    \/ PassStoreOp
    \/ PassReturns
    \/ HarvesterTickerFires
    \/ SelectTick
    \/ SelectDone

-----------------------------------------------------------------------------
(* parseMeta and the overlay of fetchAndParse *)

\* A string of the page: its text without surrounding white space, and
\* whether white space surrounds it.
Str(text, padded) == [text |-> text, upper |-> FALSE, padded |-> padded]

\* What the document holds for one selector: whether a node matches, and for
\* the first such node its content attribute (for <title>, its text).
Tag(present, content) == [present |-> present, content |-> content]

\* No node, a node with blank content, a node with content, a node with
\* content surrounded by white space.
TagsWith(text) ==
    {Tag(FALSE, Literal("")), Tag(TRUE, Str("", TRUE)),
     Tag(TRUE, Literal(text)), Tag(TRUE, Str(text, TRUE))}

Documents ==
    [ogTitle : TagsWith("OG Title"), title : TagsWith("Fallback"),
     ogDescription : TagsWith("OG Desc"), description : TagsWith("Meta Desc"),
     ogImage : TagsWith("/img/og.png")]

\* An image URL the feed gave the article.
FeedImage == [kind |-> "absolute", host |-> "example.com", path |-> "/feed.png", query |-> 0]

\* The articles fetchAndParse is called with: without and with an image.
MetaArticles == {Fetched(1), [Fetched(1) EXCEPT !.ImageURL = FeedImage]}

NotParsed == [ID |-> 0 - 1, Title |-> "", URL |-> EmptyURL, Description |-> "", ImageURL |-> EmptyURL]

\* The URL a content string denotes.
URLOf(text) == IF text = "" THEN EmptyURL ELSE [RelativeURL EXCEPT !.path = text]

\* extract(sel): the trimmed content attribute of the first matching node,
\* "" when no node matches.
extract(tag) == IF tag.present THEN TrimSpace(tag.content) ELSE Literal("")

\* doc.Find("title").First().Text(), which is "" for an empty selection.
Text(tag) == IF tag.present THEN tag.content ELSE Literal("")

\* firstNonEmpty(values...)
firstNonEmpty(values) ==
    LET nonEmpty == {i \in DOMAIN values : TrimSpace(values[i]) # Literal("")}
    IN  IF nonEmpty = {} THEN Literal("")
        ELSE TrimSpace(values[CHOOSE i \in nonEmpty : \A j \in nonEmpty : i <= j])

\* (mutant) the fallbacks are tried before the Open-Graph tags.
parseMetaPrefersFallback(doc) ==
    [Title |-> firstNonEmpty(<<TrimSpace(Text(doc.title)), extract(doc.ogTitle)>>).text,
     Description |->
         firstNonEmpty(<<extract(doc.description), extract(doc.ogDescription)>>).text,
     ImageURL |-> URLOf(extract(doc.ogImage).text)]

\* parseMeta(body) for a body that parses.
parseMeta(doc) ==
    [Title |-> firstNonEmpty(<<extract(doc.ogTitle), TrimSpace(Text(doc.title))>>).text,
     Description |->
         firstNonEmpty(<<extract(doc.ogDescription), extract(doc.description)>>).text,
     ImageURL |-> URLOf(extract(doc.ogImage).text)]

InitMeta ==
    /\ mDoc \in Documents
    /\ mArt \in MetaArticles
    /\ mOut = NotParsed

ParkedMeta ==
    /\ mDoc = [ogTitle |-> Tag(FALSE, Literal("")), title |-> Tag(FALSE, Literal("")),
               ogDescription |-> Tag(FALSE, Literal("")),
               description |-> Tag(FALSE, Literal("")), ogImage |-> Tag(FALSE, Literal(""))]
    /\ mArt = ZeroArticle
    /\ mOut = ZeroArticle

\* fetchAndParse on a page that was fetched with status 200 and parses:
\* parseMeta, then the overlay on a copy of the article.
ParseAndOverlay ==
    /\ mOut = NotParsed
    /\ mOut' = Overlay(mArt, parseMeta(mDoc))
    /\ UNCHANGED <<mDoc, mArt>>
    /\ UNCHANGED notMeta

NextMeta == ParseAndOverlay

-----------------------------------------------------------------------------
(* Specifications: one component runs, the others stay parked. *)

InitStoreOnly == InitStore /\ ParkedFanout /\ ParkedProcess /\ ParkedEnrich /\ ParkedRun /\ ParkedNewStore /\ ParkedHarvester /\ ParkedMeta
SpecStore == InitStoreOnly /\ [][NextStore]_vars

\* The store opened on a file that holds a value MarkArticle did not write.
InitStoreForeignOnly ==
    InitStoreForeign /\ ParkedFanout /\ ParkedProcess /\ ParkedEnrich /\ ParkedRun /\ ParkedNewStore /\ ParkedHarvester /\ ParkedMeta
SpecStoreForeign == InitStoreForeignOnly /\ [][NextStore]_vars

InitFanoutOnly == InitFanout /\ ParkedStore /\ ParkedProcess /\ ParkedEnrich /\ ParkedRun /\ ParkedNewStore /\ ParkedHarvester /\ ParkedMeta
NextFanout == Publish
SpecFanout == InitFanoutOnly /\ [][NextFanout]_vars

InitProcessOnly == InitProcess /\ ParkedStore /\ ParkedFanout /\ ParkedEnrich /\ ParkedRun /\ ParkedNewStore /\ ParkedHarvester /\ ParkedMeta
SpecProcess == InitProcessOnly /\ [][NextProcess]_vars

\* Process called with a cancellable ctx.
InitProcessCtxOnly ==
    InitProcessCancellable /\ ParkedStore /\ ParkedFanout /\ ParkedEnrich /\ ParkedRun /\ ParkedNewStore /\ ParkedHarvester /\ ParkedMeta
SpecProcessCtx == InitProcessCtxOnly /\ [][NextProcessCtx]_vars

InitEnrichOnly == InitEnrich /\ ParkedStore /\ ParkedFanout /\ ParkedProcess /\ ParkedRun /\ ParkedNewStore /\ ParkedHarvester /\ ParkedMeta
SpecEnrich == InitEnrichOnly /\ [][NextEnrich]_vars

InitRunOnly == InitRun /\ ParkedStore /\ ParkedFanout /\ ParkedProcess /\ ParkedEnrich /\ ParkedNewStore /\ ParkedHarvester /\ ParkedMeta
SpecRun == InitRunOnly /\ [][NextRun]_vars

\* The enricher with a scaled-down pool; the goroutines of Enrich are
\* scheduled fairly, the ticker keeps ticking and every page fetch returns,
\* while nothing obliges the context to be cancelled.
InitEnrichPoolOnly ==
    InitEnrichPool /\ ParkedStore /\ ParkedFanout /\ ParkedProcess /\ ParkedRun /\ ParkedNewStore /\ ParkedHarvester /\ ParkedMeta
EnrichFairness ==
    /\ WF_vars(EnrichStart)
    /\ WF_vars(DispatchCheck)
    /\ WF_vars(TickerFires)
    /\ WF_vars(EnrichReturns)
    /\ \A w \in 1 .. MaxBatch :
          /\ WF_vars(w \in DOMAIN eW /\ Handoff(w))
          /\ WF_vars(w \in DOMAIN eW /\ WorkerDrained(w))
          /\ WF_vars(w \in DOMAIN eW /\ WorkerCheck(w))
          /\ WF_vars(w \in DOMAIN eW /\ WorkerSelectsDone(w))
          /\ WF_vars(w \in DOMAIN eW /\ WorkerSelectsTick(w))
          /\ WF_vars(w \in DOMAIN eW /\ FetchStarts(w))
          /\ WF_vars(w \in DOMAIN eW /\ FetchReturns(w))
SpecEnrichPool == InitEnrichPoolOnly /\ [][NextEnrich]_vars /\ EnrichFairness

\* The scheduler with a scaled-down pool; the goroutines of runAll are
\* scheduled fairly and every Process call returns, while nothing obliges
\* the context to be cancelled.
InitRunPoolOnly ==
    InitRunPool /\ ParkedStore /\ ParkedFanout /\ ParkedProcess /\ ParkedEnrich /\ ParkedNewStore /\ ParkedHarvester /\ ParkedMeta
RunFairness ==
    /\ WF_vars(RunEnter)
    /\ WF_vars(RunDispatchCheck)
    /\ WF_vars(RunReturns)
    /\ \A w \in 1 .. MaxProviders :
          /\ WF_vars(w \in DOMAIN rW /\ RunHandoff(w))
          /\ WF_vars(w \in DOMAIN rW /\ RunWorkerDrained(w))
          /\ WF_vars(w \in DOMAIN rW /\ RunWorkerCheck(w))
          /\ WF_vars(w \in DOMAIN rW /\ ProcessDone(w))
SpecRunPool == InitRunPoolOnly /\ [][NextRun]_vars /\ RunFairness

InitNewStoreOnly ==
    InitNewStore /\ ParkedStore /\ ParkedFanout /\ ParkedProcess /\ ParkedEnrich /\ ParkedRun
                 /\ ParkedHarvester /\ ParkedMeta
SpecNewStore == InitNewStoreOnly /\ [][NextNewStore]_vars

InitHarvesterOnly ==
    InitHarvester /\ ParkedStore /\ ParkedFanout /\ ParkedProcess /\ ParkedEnrich /\ ParkedRun
                  /\ ParkedNewStore /\ ParkedMeta
SpecHarvester == InitHarvesterOnly /\ [][NextHarvester]_vars

\* The crawl loop when Run is called, every crawl returns, and a select with
\* a cancelled ctx takes case <-ctx.Done() sooner or later: select picks
\* uniformly among its ready cases.  Nothing obliges the ticker to fire or
\* the context to be cancelled.
HarvesterFairness ==
    /\ WF_vars(RunStart)
    /\ WF_vars(PassReturns)
    /\ SF_vars(SelectDone)
SpecHarvesterFair == InitHarvesterOnly /\ [][NextHarvester]_vars /\ HarvesterFairness

InitMetaOnly ==
    InitMeta /\ ParkedStore /\ ParkedFanout /\ ParkedProcess /\ ParkedEnrich /\ ParkedRun
             /\ ParkedNewStore /\ ParkedHarvester
SpecMeta == InitMetaOnly /\ [][NextMeta]_vars

-----------------------------------------------------------------------------
(* Claims about the dedupe store (checked under SpecStore). *)

\* C1 (as stated): after MarkArticle(id) at time T, with no later mark of id,
\* a SeenArticle(id) that returns without a storage error reports seen exactly
\* when it is issued before T + TTL: seen throughout [T, T+TTL), not seen from
\* T+TTL on, whether or not a cleanup pass ran in between.
C1_SeenExactlyWithinTTL ==
    (ret.op = "seen" /\ ~ret.err /\ markedAt[ret.id] # NoMark)
        => (ret.seen <=> clock < markedAt[ret.id] + articleTTL)

\* What the store does instead: the expiry is kept in whole seconds, so the
\* mark is honoured only until the start of the second that holds T + TTL.
C1_SeenUntilExpirySecond ==
    (ret.op = "seen" /\ ~ret.err /\ markedAt[ret.id] # NoMark)
        => (ret.seen <=> clock < FromUnix(Unix(markedAt[ret.id] + articleTTL)))

\* C10: a lookup that finds an expired record deletes it in the same
\* transaction and reports not seen; a record that is absent comes back only
\* through the Put of a MarkArticle for that id; and a lookup reports seen
\* only for a record that is in the bucket.
C10_ExpiredDeletedNotResurrected ==
    [][ /\ (ret'.op = "seen" /\ ~ret'.err
              /\ bucket[ret'.id] # NoValue /\ Expired(bucket[ret'.id], clock))
           => (bucket'[ret'.id] = NoValue /\ ~ret'.seen)
        /\ \A i \in Ids :
              (bucket[i] = NoValue /\ bucket'[i] # NoValue)
              => \E g \in Callers :
                    /\ st[g].pc = "txn" /\ st[g].op = "mark" /\ st[g].id = i
                    /\ st'[g].pc = "idle"
        /\ (ret'.op = "seen" /\ ret'.seen)
           => (bucket[ret'.id] # NoValue /\ bucket'[ret'.id] # NoValue)
      ]_vars

\* A lookup has just found the expired record of a marked id and removed it.
C10_Witness ==
    /\ ret.op = "seen" /\ ret.found = "expired" /\ ~ret.seen
    /\ markedAt[ret.id] # NoMark
    /\ bucket[ret.id] = NoValue

-----------------------------------------------------------------------------
(* Claims about the fan-out publisher (checked under SpecFanout). *)

\* The sinks that failed in the last Publish, and the j-th of them in sink order.
FailedSinks == {i \in DOMAIN fOut : fOut[i]}
NthFailed(j) ==
    CHOOSE i \in FailedSinks : Cardinality({k \in FailedSinks : k <= i}) = j

\* C3: a Publish over N sinks of which K returned an error returns the count
\* N - K and an error that is nil exactly when K = 0 and otherwise lists
\* exactly the K failing sinks, each with its type and identifier; with no
\* sink, or a nil fan-out, it returns (0, nil).
C3_FanoutCountsAndErrors ==
    (fRes # NoResult) =>
        LET N == Len(fanout.publishers)
            K == Cardinality(FailedSinks)
        IN  /\ fRes.successful = N - K
            /\ fRes.err.isNil <=> (K = 0)
            /\ Len(fRes.err.errs) = K
            /\ \A j \in 1 .. K :
                  fRes.err.errs[j] = [type |-> fanout.publishers[NthFailed(j)].type,
                                      id |-> fanout.publishers[NthFailed(j)].id]
            /\ (fanout.isNil \/ N = 0) => (fRes.successful = 0 /\ fRes.err = Nil)

\* A Publish over three sinks of which the first failed and the others did not.
C3_Witness ==
    /\ fRes # NoResult
    /\ Len(fanout.publishers) = 3
    /\ fOut[1] /\ ~fOut[2] /\ ~fOut[3]
    /\ fRes.successful = 2
    /\ ~fRes.err.isNil

-----------------------------------------------------------------------------
(* Claims about the provider processor (checked under SpecProcess). *)

IsSeenCall(e) == e.k = "seen"
IsPublishCall(e) == e.k = "publish"
IsFailedPublish(e) == e.k = "publish" /\ e.err
IsMarkCall(e) == e.k = "mark"

IdsOf(events) == [j \in DOMAIN events |-> events[j].id]

\* The publisher's invocations so far, and those that returned an error.
PublishCalls == SelectSeq(pLog, IsPublishCall)
FailedPublishes == SelectSeq(pLog, IsFailedPublish)

\* Entry i of the fetch result was reported seen by the dedupe collaborator.
ReportedSeen(i) ==
    \E j \in DOMAIN pLog :
        pLog[j].k = "seen" /\ pLog[j].i = i /\ pLog[j].n = 1 /\ ~pLog[j].err

\* The identifiers of the fetched articles not reported seen, in fetch order.
RECURSIVE NotSeenFrom(_)
NotSeenFrom(i) ==
    IF i > Len(pFetched) THEN <<>>
    ELSE (IF ReportedSeen(i) THEN <<>> ELSE <<pFetched[i].ID>>) \o NotSeenFrom(i + 1)

IsPrefix(a, b) == Len(a) <= Len(b) /\ \A j \in DOMAIN a : a[j] = b[j]

\* Process ran its publish stage to the end with a publisher configured.
PublishStageDone ==
    /\ pPc = "done"
    /\ pRet.kind \in {NoError.kind, PublishError(<<>>).kind}
    /\ proc.publisher # NoPublisher

\* C2: the articles handed to the publisher are, in fetch order, exactly the
\* fetched articles that the dedupe collaborator did not report as seen (so
\* an article reported seen is never published), and MarkArticle is called
\* for an article only after the Publish of that article returned, accepted.
C2_PublishesExactlyUnseenThenMarks ==
    /\ (pPc \in {"publish", "mark", "done"} /\ pRet.kind # FetchError.kind)
          => IsPrefix(IdsOf(PublishCalls), NotSeenFrom(1))
    /\ PublishStageDone => IdsOf(PublishCalls) = NotSeenFrom(1)
    /\ \A m \in DOMAIN pLog :
          pLog[m].k = "mark" =>
             \E j \in 1 .. (m - 1) :
                 /\ pLog[j].k = "publish" /\ pLog[j].i = pLog[m].i
                 /\ pLog[j].id = pLog[m].id /\ pLog[j].n > 0

\* Of two fetched articles the first was reported seen and dropped, the
\* second was published alone and then marked.
C2_Witness ==
    /\ PublishStageDone
    /\ Len(pFetched) = 2 /\ ReportedSeen(1) /\ ~ReportedSeen(2)
    /\ IdsOf(PublishCalls) = <<pFetched[2].ID>>
    /\ \E m \in DOMAIN pLog : pLog[m].k = "mark" /\ pLog[m].id = pFetched[2].ID

\* C4: when the publish stage ends, the publisher was invoked once per fresh
\* article whatever failed, and Process returns nil if no Publish returned an
\* error and otherwise one joined error naming, in order, the identifier of
\* every article whose Publish returned an error.
C4_JoinedErrorNoFailFast ==
    PublishStageDone =>
        /\ Len(PublishCalls) = Len(pArticles)
        /\ IdsOf(PublishCalls) = [j \in DOMAIN pArticles |-> pArticles[j].ID]
        /\ IdsOf(pRet.articles) = IdsOf(FailedPublishes)
        /\ (FailedPublishes = <<>>) <=> (pRet = NoError)
        /\ (FailedPublishes # <<>>) <=> (pRet.kind = PublishError(<<>>).kind)

\* Two fresh articles: the Publish of the first failed on every sink, the
\* second was still published, and the returned error names the first alone.
C4_Witness ==
    /\ PublishStageDone
    /\ Len(pArticles) = 2
    /\ Len(PublishCalls) = 2
    /\ PublishCalls[1].err /\ PublishCalls[1].n = 0
    /\ ~PublishCalls[2].err
    /\ IdsOf(pRet.articles) = <<pArticles[1].ID>>

\* How often MarkArticle was called for fresh article i, and whether the
\* fan-out reported that at least one sink accepted it.
MarkCount(i) == Cardinality({m \in DOMAIN pLog : pLog[m].k = "mark" /\ pLog[m].i = i})
Accepted(i) ==
    \E j \in DOMAIN pLog : pLog[j].k = "publish" /\ pLog[j].i = i /\ pLog[j].n > 0

\* C5: MarkArticle is called at most once per article and only for an
\* article the fan-out reported accepted by at least one sink; when Process
\* has returned, every accepted article has been marked (a dedupe
\* collaborator being configured), and an article accepted by no sink has
\* not been marked.
C5_MarkIffAccepted ==
    \A i \in DOMAIN pArticles :
        /\ MarkCount(i) <= 1
        /\ (MarkCount(i) = 1) => Accepted(i)
        /\ (pPc = "done" /\ proc.deduper /\ Accepted(i)) => (MarkCount(i) = 1)
        /\ (pPc = "done" /\ ~Accepted(i)) => (MarkCount(i) = 0)

\* Two fresh articles, two sinks: the first was rejected by both sinks and was
\* not marked, the second was accepted by one sink and marked once.
C5_Witness ==
    /\ PublishStageDone
    /\ proc.deduper
    /\ Len(proc.publisher.publishers) = 2
    /\ Len(PublishCalls) = 2
    /\ PublishCalls[1].n = 0 /\ MarkCount(1) = 0
    /\ PublishCalls[2].n = 1 /\ MarkCount(2) = 1


-----------------------------------------------------------------------------
(* C6 *)

\* The article at index i was taken up by a worker before the cancellation.
StartedBeforeCancel(i) == eHist[i].claimed = "before cancel"

\* Enrich has returned.
EnrichReturned == eDisp.pc = "returned"

\* The complete results of processing an article.
CompleteResults(art) ==
    {Processed(art, failed, meta) : failed \in BOOLEAN, meta \in PageMetas}

\* C6: whenever Enrich returns, with the context cancelled at any moment or
\* not at all, the returned slice is as long as the input; every slot holds
\* the original article of its index or a complete result of processing that
\* article; and every slot whose article no worker took up before the
\* cancellation holds the original.
C6_EnrichSlotsUnderCancel ==
    EnrichReturned =>
        /\ Len(eRet) = Len(eArticles)
        /\ \A i \in DOMAIN eArticles :
              /\ eRet[i] = eArticles[i] \/ eRet[i] \in CompleteResults(eArticles[i])
              /\ eRet[i] # eArticles[i] => eRet[i] = eHist[i].result
              /\ ~StartedBeforeCancel(i) => eRet[i] = eArticles[i]

\* Enrich returned after a cancellation in mid-batch: one slot was processed
\* and differs from its original, another was never taken up.
C6_Witness ==
    /\ EnrichReturned
    /\ eCtx = "cancelled"
    /\ \E i, j \in DOMAIN eArticles :
          /\ StartedBeforeCancel(i)
          /\ eRet[i] # eArticles[i]
          /\ eHist[j].claimed = "no"
          /\ eRet[j] = eArticles[j]



-----------------------------------------------------------------------------
(* C7, C8, C9 *)

\* Run has returned.
RunReturned == rDisp.pc = "returned"

\* The providers Process was called for, and those it failed for.
ProvidersWithResult(S) == {p \in DOMAIN rHist : rHist[p].result \in S}
CalledProviders == {p \in DOMAIN rHist : rHist[p].called}
FailedProviders == ProvidersWithResult({"error"})

\* The number of entries of errs that belong to provider p.
EntriesOf(errs, p) == Cardinality({k \in DOMAIN errs : errs[k].provider = p})

\* C7: Run on a constructed service with an empty provider list returns the
\* error "no providers configured" and starts no worker and processes no
\* provider; Run on a nil service, or one without a processor, returns the
\* different error "not initialized", again without starting anything; and
\* neither is nil.
C7_RunRejectsEmptyAndUninitialized ==
    /\ ErrNoProviders # ErrNotInitialized
    /\ ErrNoProviders # RunNil
    /\ ErrNotInitialized # RunNil
    /\ rSvc # "constructed" =>
          /\ rW = <<>>
          /\ CalledProviders = {}
          /\ RunReturned => rRet = ErrNotInitialized
    /\ rSvc = "constructed" /\ Len(rCfgs) = 0 =>
          /\ rW = <<>>
          /\ CalledProviders = {}
          /\ RunReturned => rRet = ErrNoProviders

\* Run returned for a constructed service and an empty provider list.
C7_Witness ==
    /\ RunReturned
    /\ rSvc = "constructed"
    /\ Len(rCfgs) = 0
    /\ rRet = ErrNoProviders

\* C8: whenever the context is cancelled, every error in errCh, and every
\* entry of the error Run returns, belongs to a provider Process was called
\* for and failed for (a provider never started contributes none); and when
\* the context was cancelled before Run was called, Process is called for no
\* provider, errCh stays empty and Run returns nil.
C8_CancellationIsNoError ==
    /\ \A k \in DOMAIN rErrCh : rErrCh[k].provider \in FailedProviders
    /\ \A k \in DOMAIN rRet.errs : rRet.errs[k].provider \in FailedProviders
    /\ \A p \in DOMAIN rHist :
          ~rHist[p].called => EntriesOf(rErrCh, p) = 0 /\ EntriesOf(rRet.errs, p) = 0
    /\ rPre /\ rSvc = "constructed" /\ Len(rCfgs) > 0 =>
          /\ CalledProviders = {}
          /\ rErrCh = <<>>
          /\ RunReturned => rRet = RunNil

\* Run returned after a cancellation in mid-pass: one provider failed and is
\* in the aggregate, another was handed to no Process call.
C8_Witness ==
    /\ RunReturned
    /\ rCtx = "cancelled"
    /\ ~rPre
    /\ \E p, q \in DOMAIN rHist :
          /\ rHist[p].result = "error"
          /\ ~rHist[q].called
          /\ rRet = Joined(<<ProviderError(p)>>)

\* C9: when Run returns for a non-empty provider list on a constructed
\* service, it returns nil exactly if no processed provider failed; else it
\* returns one joined error with exactly one entry for each failing provider
\* and none for any other; and, the context not being cancelled, every
\* provider of the pass was processed, whatever the others returned.
C9_RunAggregatesProviderErrors ==
    RunReturned /\ rSvc = "constructed" /\ Len(rCfgs) > 0 =>
        /\ rRet = RunNil <=> FailedProviders = {}
        /\ rRet # RunNil =>
              /\ rRet.kind = "joined"
              /\ Len(rRet.errs) = Cardinality(FailedProviders)
              /\ \A p \in DOMAIN rHist :
                    EntriesOf(rRet.errs, p) = IF p \in FailedProviders THEN 1 ELSE 0
              /\ \A k \in DOMAIN rRet.errs : rRet.errs[k] = ProviderError(rRet.errs[k].provider)
        /\ rCtx = "live" => ProvidersWithResult({"nil", "error"}) = DOMAIN rCfgs

\* Run returned, uncancelled, with two failing providers and a succeeding one
\* that was processed after a failure.
C9_Witness ==
    /\ RunReturned
    /\ rCtx = "live"
    /\ Cardinality(FailedProviders) = 2
    /\ ProvidersWithResult({"nil"}) # {}
    /\ rRet.kind = "joined"
    /\ Len(rRet.errs) = 2



-----------------------------------------------------------------------------
(* C11, C12 *)

\* A cleanup scan was committed in the step that led to this state.
ScanCommitted == scan.now # NoMark

\* The expiry instant a stored value decodes to.
ExpiryOf(value) == decodeExpiry(value)[1]

\* C11: a cleanup scan run with `now` removes every record whose expiry is at
\* or before now, keeps every record whose expiry is after now with its value
\* unchanged, and adds no record.
C11_ScanRemovesExactlyExpired ==
    ScanCommitted =>
        \A id \in Ids :
            LET v == scan.before[id]
            IN  /\ v = NoValue => bucket[id] = NoValue
                /\ v # NoValue /\ ExpiryOf(v) <= scan.now => bucket[id] = NoValue
                /\ v # NoValue /\ ExpiryOf(v) > scan.now => bucket[id] = v

\* A scan has just removed an expired record and kept an unexpired one.
C11_Witness ==
    /\ ScanCommitted
    /\ \E i, j \in Ids :
          /\ scan.before[i] # NoValue
          /\ ExpiryOf(scan.before[i]) <= scan.now
          /\ bucket[i] = NoValue
          /\ scan.before[j] # NoValue
          /\ ExpiryOf(scan.before[j]) > scan.now
          /\ bucket[j] = scan.before[j]

\* C12: the `now` of a committed cleanup scan is at least the cleanup interval
\* after the `now` of the scan committed before it.
C12_ScansAnIntervalApart ==
    ScanCommitted /\ scan.prev # NoMark => scan.now - scan.prev >= cleanupInterval

\* (nearby statement) the `now` of a committed scan is at least the cleanup
\* interval after the whole second the previous scan's `now` fell in, and
\* only the holder of cleanupMu is inside the scan.
C12_ScansAnIntervalAfterLastSecond ==
    /\ ScanCommitted /\ scan.prev # NoMark =>
          scan.now - FromUnix(Unix(scan.prev)) >= cleanupInterval
    /\ \A g \in Callers : st[g].pc = "scan" => cleanupMu = g



-----------------------------------------------------------------------------
(* C13 *)

\* The dedupe lookup of entry i of the fetch result returned an error.
LookupFailed(i) ==
    \E j \in DOMAIN pLog : pLog[j].k = "seen" /\ pLog[j].i = i /\ pLog[j].err

\* The fetched articles from entry i on that were not reported seen, in
\* fetch order.
RECURSIVE KeptFrom(_)
KeptFrom(i) ==
    IF i > Len(pFetched) THEN <<>>
    ELSE (IF ReportedSeen(i) THEN <<>> ELSE <<pFetched[i]>>) \o KeptFrom(i + 1)

\* filterNewArticles has just returned to Process.
FilterReturned == pPc = "enrich" /\ proc.deduper /\ Len(pFetched) > 0

\* C13: what filterNewArticles returns is the fetch result, in fetch order,
\* without the articles reported seen, an article whose lookup returned an
\* error being kept; and a lookup error never is what Process returns: after
\* the filter Process returns nil unless a Publish failed.
C13_FilterFailOpenInOrder ==
    /\ pPc = "filter" => IsPrefix(pFresh, KeptFrom(1))
    /\ FilterReturned => pArticles = KeptFrom(1)
    /\ FilterReturned =>
          \A i \in DOMAIN pFetched :
              LookupFailed(i) => \E j \in DOMAIN pArticles : pArticles[j] = pFetched[i]
    /\ (pPc = "done" /\ \E i \in DOMAIN pFetched : LookupFailed(i)) =>
          /\ pRet.kind \in {NoError.kind, PublishError(<<>>).kind}
          /\ FailedPublishes = <<>> => pRet = NoError

\* Two different articles were fetched; the lookup of the first failed while
\* answering "seen", the second was not seen; the filter returned both in
\* fetch order.
C13_Witness ==
    /\ FilterReturned
    /\ Len(pFetched) = 2
    /\ pFetched[1].ID # pFetched[2].ID
    /\ LookupFailed(1)
    /\ \E j \in DOMAIN pLog : pLog[j].k = "seen" /\ pLog[j].i = 1 /\ pLog[j].n = 1
    /\ ~LookupFailed(2)
    /\ pArticles = pFetched



-----------------------------------------------------------------------------
(* C14 *)

\* The MarkArticle of fresh article i returned an error.
MarkFailed(i) ==
    \E m \in DOMAIN pLog : pLog[m].k = "mark" /\ pLog[m].i = i /\ pLog[m].err

\* C14: a failed MarkArticle leaves the publish step as it was: `published`
\* counts every article a sink accepted whether or not its mark failed, `errs`
\* holds publish errors only, every article after a failed mark is still
\* handed to the publisher, and Process returns nil when no Publish returned
\* an error, even if every mark failed.
C14_MarkFailureDoesNotFailPublish ==
    /\ pPc \in {"publish", "mark", "done"} =>
          /\ pPublished = Cardinality({i \in DOMAIN pArticles : Accepted(i)})
          /\ IdsOf(pErrs) = IdsOf(FailedPublishes)
    /\ PublishStageDone =>
          /\ (\E i \in DOMAIN pArticles : MarkFailed(i)) =>
                 Len(PublishCalls) = Len(pArticles)
          /\ FailedPublishes = <<>> => pRet = NoError

\* Two articles were published and accepted, both marks failed, and Process
\* returned nil having counted two published articles.
C14_Witness ==
    /\ PublishStageDone
    /\ Len(pArticles) = 2
    /\ \A i \in DOMAIN pArticles : Accepted(i) /\ MarkFailed(i)
    /\ FailedPublishes = <<>>
    /\ pPublished = 2
    /\ pRet = NoError



-----------------------------------------------------------------------------
(* C15 *)

\* The configured store type is empty, "none" or "disabled" (in any case,
\* with or without surrounding white space).
NoopConfigured ==
    TrimSpace(ToLower(nTyp)).text \in {"", "none", "disabled"}

\* C15: NewStore returns the no-op store, and no error, exactly when the
\* configured store type is empty, "none" or "disabled"; on that store every
\* SeenArticle reports not seen with no error, whatever was marked before,
\* and every MarkArticle returns no error.
C15_NoopStoreNeverSeen ==
    /\ nStore \notin {"unset", "parked"} => (nStore = "noop" <=> NoopConfigured)
    /\ nRet.op = "seen" => ~nRet.seen /\ ~nRet.err
    /\ nRet.op = "mark" => ~nRet.err

\* On the no-op store selected by " DISABLED ", SeenArticle of an id that
\* was marked before has just reported not seen.
C15_Witness ==
    /\ nTyp = [text |-> "disabled", upper |-> TRUE, padded |-> TRUE]
    /\ nStore = "noop"
    /\ nRet.op = "seen"
    /\ nRet.id \in nMarked
    /\ ~nRet.seen



-----------------------------------------------------------------------------
(* C16 *)

\* C16: Run eventually returns, for every provider list and every moment at
\* which the context is cancelled, lists longer than the worker pool included.
C16_RunEventuallyReturns == <>RunReturned

\* (nearby statement) Run eventually returns when the provider list is no
\* longer than the worker pool.
C16_RunReturnsWhenPoolCoversList ==
    (Len(rCfgs) <= rCap) => <>RunReturned



-----------------------------------------------------------------------------
(* C17 *)

\* C17: Enrich eventually returns, for every batch and every moment at which
\* the context is cancelled, batches larger than the worker pool included.
C17_EnrichEventuallyReturns == <>EnrichReturned

\* (nearby statement) Enrich eventually returns when the batch is no larger
\* than the worker pool.
C17_EnrichReturnsWhenPoolCoversBatch ==
    (Len(eArticles) <= eCap) => <>EnrichReturned



-----------------------------------------------------------------------------
(* C18 *)

\* C18: no page fetch starts after the context was cancelled.
C18_NoFetchStartsAfterCancel ==
    \A i \in DOMAIN eHist : eHist[i].fetch # "after cancel"

\* (nearby statement) an index a worker received after the cancellation, or
\* never received, is not fetched; only a worker already past its
\* ctx.Err() check can still start a fetch.
C18_NoFetchForIndexTakenAfterCancel ==
    \A i \in DOMAIN eHist :
        eHist[i].claimed # "before cancel" => eHist[i].fetch = "no"

-----------------------------------------------------------------------------
(* C19, C20 *)

\* The workers inside a Process call.
Processing == {w \in DOMAIN rW : rW[w].pc = "process"}

\* runAll has started its workers.
PassStarted == rSvc = "constructed" /\ Len(rCfgs) > 0 /\ rDisp.pc # "start"

\* C19: a pass starts exactly min(number of providers, worker maximum)
\* workers, the maximum being 10 in the program, and never has more than that
\* many providers inside Process at once; before the pass and without one
\* there is no worker.
C19_WorkerCountIsMinOfProvidersAndMax ==
    /\ maxProviderWorkers = 10
    /\ PassStarted => Len(rW) = Min(Len(rCfgs), rCap)
    /\ ~PassStarted => rW = <<>>
    /\ Cardinality(Processing) <= Min(Len(rCfgs), rCap)

\* Three providers and a maximum of two: two workers exist, both inside
\* Process, while the third provider waits.
C19_Witness ==
    /\ Len(rCfgs) = 3
    /\ rCap = 2
    /\ Len(rW) = 2
    /\ Cardinality(Processing) = 2
    /\ rHist[3].handed = 0

\* C20: every provider is handed to a worker at most once and Process is
\* called for it at most once; when Run returns from a pass during which the
\* context was never cancelled, every provider was handed over once and
\* processed once.
C20_EachProviderAtMostOnce ==
    /\ \A p \in DOMAIN rHist :
          /\ rHist[p].handed <= 1
          /\ rHist[p].calls <= rHist[p].handed
    /\ (RunReturned /\ PassStarted /\ rCtx = "live") =>
          \A p \in DOMAIN rHist :
              /\ rHist[p].handed = 1
              /\ rHist[p].calls = 1
              /\ rHist[p].result # "none"

\* Run returned, uncancelled, from a pass in which one worker processed
\* three providers one after the other.
C20_Witness ==
    /\ RunReturned
    /\ rCtx = "live"
    /\ rCap = 1
    /\ Len(rCfgs) = 3
    /\ \A p \in DOMAIN rHist : rHist[p].calls = 1 /\ rHist[p].result # "none"



-----------------------------------------------------------------------------
(* C21, C22 *)

\* C21: each provider has at most one error in errCh, errCh never holds more
\* errors than its capacity (the provider count), and whenever a worker is
\* inside Process, and so may have an error to send, errCh has room for it
\* although nothing has been read from it.
C21_ErrorSendNeverBlocks ==
    /\ \A p \in DOMAIN rHist : EntriesOf(rErrCh, p) <= 1
    /\ Len(rErrCh) <= ErrChCapacity(rCfgs)
    /\ ~rErrClosed /\ Processing # {} => Len(rErrCh) < ErrChCapacity(rCfgs)

\* One worker has sent an error for each of three providers, filling errCh
\* to its capacity, and runAll has not yet read any.
C21_Witness ==
    /\ rCap = 1
    /\ Len(rCfgs) = 3
    /\ Len(rErrCh) = 3
    /\ ~rErrClosed
    /\ rDisp.pc = "wait"

\* C22: when runAll has returned (and from the moment errCh is closed) every
\* worker it started has returned and none is inside Process; no worker ever
\* sends on the closed errCh.
C22_AllWorkersDoneAtReturn ==
    /\ (RunReturned \/ rErrClosed) =>
          /\ \A w \in DOMAIN rW : rW[w].pc = "exit"
          /\ Processing = {}
    /\ \A w \in DOMAIN rW : rW[w].pc # "panic"

\* runAll returned from a pass with two workers that processed three
\* providers, one of them failing; errCh is closed and both workers are gone.
C22_Witness ==
    /\ RunReturned
    /\ rErrClosed
    /\ Len(rW) = 2
    /\ \A p \in DOMAIN rHist : rHist[p].result # "none"
    /\ Len(rCfgs) = 3
    /\ Len(rErrCh) = 1
    /\ \A w \in DOMAIN rW : rW[w].pc = "exit"



-----------------------------------------------------------------------------
(* C23, C24, C25, C27 *)

\* The stage of Process a logged call belongs to.
StageRank(k) ==
    CASE k = "fetch" -> 1
      [] k = "seen" -> 2
      [] k = "enrich" -> 3
      [] k \in {"publish", "mark"} -> 4

SeenCalls == SelectSeq(pLog, IsSeenCall)
IsEnrichCall(e) == e.k = "enrich"
EnrichCalls == SelectSeq(pLog, IsEnrichCall)
FetchSucceeded == \E j \in DOMAIN pLog : pLog[j].k = "fetch" /\ ~pLog[j].err

\* C23: no call of one Process invocation is followed by a call of an
\* earlier stage (fetch, dedupe lookups, enrichment, publish and mark); when the
\* filter stage is over every fetched article has had its lookup, and no
\* Publish happens before Enrich returned when a scraper is configured;
\* lookups happen only with a deduper and a non-empty fetch result (and then
\* always), and Enrich is called only, and at most once, with a scraper.
C23_StagesInStrictSequence ==
    /\ \A j \in 2 .. Len(pLog) : StageRank(pLog[j - 1].k) <= StageRank(pLog[j].k)
    /\ SeenCalls # <<>> => proc.deduper /\ Len(pFetched) > 0
    /\ (FetchSucceeded /\ pPc # "filter") =>
          Len(SeenCalls) = (IF proc.deduper THEN Len(pFetched) ELSE 0)
    /\ pPc = "filter" => Len(SeenCalls) = pIdx - 1 /\ EnrichCalls = <<>>
    /\ Len(EnrichCalls) <= (IF proc.scraper THEN 1 ELSE 0)
    /\ (proc.scraper /\ pPc \in {"publish", "mark"}) => Len(EnrichCalls) = 1
    /\ (proc.scraper /\ pPc = "done" /\ FetchSucceeded) => Len(EnrichCalls) = 1

\* With a deduper and a scraper, two articles were looked up, then enriched,
\* then both published and marked.
C23_Witness ==
    /\ pPc = "done"
    /\ proc.deduper /\ proc.scraper
    /\ Len(pFetched) = 2
    /\ IdsOf(pLog) = <<ProviderID, pFetched[1].ID, pFetched[2].ID, ProviderID,
                       pFetched[1].ID, pFetched[1].ID, pFetched[2].ID, pFetched[2].ID>>
    /\ [j \in DOMAIN pLog |-> pLog[j].k] =
          <<"fetch", "seen", "seen", "enrich", "publish", "mark", "publish", "mark">>

\* C24: when no fetcher is resolved Process has returned the resolution
\* error and called nothing, the fetch included; when the fetch fails Process
\* has returned the fetch error and its only call was that fetch: no dedupe
\* lookup, no enrichment, no publish and no mark.
C24_ResolveOrFetchFailureStopsProcess ==
    /\ pRet = ResolveError => pPc = "done" /\ pLog = <<>>
    /\ pRet = FetchError =>
          /\ pPc = "done"
          /\ Len(pLog) = 1 /\ pLog[1].k = "fetch" /\ pLog[1].err
          /\ pArticles = <<>> /\ pPublished = 0
    /\ (\E j \in DOMAIN pLog : pLog[j].k = "fetch" /\ pLog[j].err) => pRet = FetchError

\* The fetch failed in a processor with a deduper, a scraper and two sinks.
C24_Witness ==
    /\ pRet = FetchError
    /\ proc.deduper /\ proc.scraper
    /\ ~proc.publisher.isNil /\ Len(proc.publisher.publishers) = 2
    /\ Len(pLog) = 1

\* C25: when no article is left after the filter and the enrichment, Process
\* returns nil straight away: the publish stage is never entered with an
\* empty list, and no Publish and no MarkArticle call was made.
C25_NothingLeftIsSuccess ==
    /\ (pPc = "done" /\ FetchSucceeded /\ Len(pArticles) = 0) =>
          /\ pRet = NoError
          /\ PublishCalls = <<>>
          /\ \A m \in DOMAIN pLog : pLog[m].k # "mark"
    /\ pPc \in {"publish", "mark"} => Len(pArticles) > 0

\* Two articles were fetched, both were reported seen, and Process returned
\* nil with a two-sink publisher never invoked.
C25_Witness ==
    /\ pPc = "done"
    /\ Len(pFetched) = 2 /\ ReportedSeen(1) /\ ReportedSeen(2)
    /\ proc.scraper
    /\ ~proc.publisher.isNil /\ Len(proc.publisher.publishers) = 2
    /\ pArticles = <<>>
    /\ pRet = NoError

\* Some but not all sinks accepted fresh article i.
PartlyAccepted(i) ==
    \E j \in DOMAIN pLog :
        /\ pLog[j].k = "publish" /\ pLog[j].i = i
        /\ pLog[j].n > 0 /\ pLog[j].n < Len(proc.publisher.publishers)

\* C27: when the publish stage is over, an article that some but not all
\* sinks accepted has had MarkArticle called for it once (a deduper being
\* configured) and is named in the publish error Process returns.
C27_PartlyAcceptedMarkedAndReported ==
    PublishStageDone =>
        \A i \in DOMAIN pArticles :
            PartlyAccepted(i) =>
                /\ proc.deduper => MarkCount(i) = 1
                /\ pRet.kind = PublishError(<<>>).kind
                /\ \E j \in DOMAIN pRet.articles : pRet.articles[j].id = pArticles[i].ID

\* One article, two sinks of which one accepted it: the article was marked
\* and Process returned the error naming it.
C27_Witness ==
    /\ PublishStageDone
    /\ proc.deduper
    /\ Len(pArticles) = 1
    /\ PartlyAccepted(1)
    /\ MarkCount(1) = 1 /\ ~MarkFailed(1)
    /\ IdsOf(pRet.articles) = <<pArticles[1].ID>>



-----------------------------------------------------------------------------
(* C26 (checked under SpecProcessCtx) *)

\* ctx was cancelled while scraper.Enrich was running.
CancelledDuringEnrich ==
    \E j \in DOMAIN pLog : pLog[j].k = "enrich" /\ pLog[j].i = 0 /\ pLog[j].err

-----------------------------------------------------------------------------
(* C28, C29 (checked under SpecEnrich), C30 (checked under SpecEnrichPool) *)

\* Enrich has seeded `out`.
EnrichStarted == eDisp.pc \notin {"start", "parked"}

\* C28: `out` always has the length of the batch; a slot whose fetchAndParse
\* ended with a fetch error, a status other than 200 or a parse error equals
\* the original article, as does a slot no worker has stored yet; a slot whose
\* fetchAndParse succeeded holds the original with its own page's metadata
\* overlaid, whatever happened to the other articles; Enrich returns `out`.
C28_FailedSlotKeepsOriginal ==
    /\ EnrichStarted =>
          /\ Len(eOut) = Len(eArticles)
          /\ \A i \in DOMAIN eOut :
                /\ eHist[i].outcome \in {"none", "fetch error", "status", "parse error"}
                      => eOut[i] = eArticles[i]
                /\ eHist[i].outcome = "ok" => eOut[i] = Overlay(eArticles[i], eHist[i].meta)
    /\ EnrichReturned => eRet = eOut /\ Len(eRet) = Len(eArticles)

\* Of two articles the first got a non-200 page (with a title of its own) and
\* the second was enriched: Enrich returned the first as fetched and the
\* second with the page's title.
C28_Witness ==
    /\ EnrichReturned
    /\ Len(eArticles) = 2
    /\ eHist[1].outcome = "status" /\ eHist[1].meta.Title = "og title"
    /\ eHist[2].outcome = "ok" /\ eHist[2].meta.Title = "og title"
    /\ eRet[1] = eArticles[1]
    /\ eRet[2].Title = "og title"

\* C29: every index is received by at most one worker, no two workers hold
\* the same index, a slot is stored at most once and only by a worker that
\* had received its index; every slot of `out`, and of what Enrich returns, holds
\* the article of the same position of the batch.
C29_OneWorkerPerSlotInInputOrder ==
    /\ \A i \in DOMAIN eHist :
          /\ eHist[i].claims <= 1
          /\ eHist[i].writes <= eHist[i].claims
          /\ eHist[i].writes > 0 => eHist[i].writer = i
    /\ \A v \in DOMAIN eW : \A w \in DOMAIN eW :
          (v # w /\ eW[v].idx # 0) => eW[v].idx # eW[w].idx
    /\ EnrichStarted => \A i \in DOMAIN eOut : eOut[i].ID = eArticles[i].ID
    /\ EnrichReturned =>
          /\ Len(eRet) = Len(eArticles)
          /\ \A i \in DOMAIN eRet : eRet[i].ID = eArticles[i].ID

\* Two workers took the two articles; the second article's slot has been
\* stored, enriched, while the first page is still being fetched.
C29_Witness ==
    /\ Len(eArticles) = 2
    /\ eHist[2].writes = 1 /\ eHist[2].outcome = "ok"
    /\ eOut[2].ID = 2 /\ eOut[2].Title = "og title"
    /\ eHist[1].writes = 0
    /\ \E w \in DOMAIN eW : eW[w].pc = "fetching" /\ eW[w].idx = 1

\* The page fetches in flight.
Fetching == {w \in DOMAIN eW : eW[w].pc = "fetching"}

\* C30: for a non-empty batch Enrich starts exactly min(batch size, worker
\* maximum) workers, the maximum being 10 in the program, and never has more
\* than that many page fetches in flight; for an empty batch, and before the
\* start, there is no worker, and for an empty batch Enrich returns an empty
\* slice.
C30_EnrichWorkerCount ==
    /\ maxArticleWorkers = 10
    /\ (EnrichStarted /\ Len(eArticles) > 0) => Len(eW) = Min(Len(eArticles), eCap)
    /\ (~EnrichStarted \/ Len(eArticles) = 0) => eW = <<>>
    /\ Cardinality(Fetching) <= Min(Len(eArticles), eCap)
    /\ (EnrichReturned /\ Len(eArticles) = 0) => eRet = <<>>

\* Two articles and a maximum of one: the one worker is fetching the first
\* page while the second article waits for it.
C30_Witness ==
    /\ Len(eArticles) = 2
    /\ eCap = 1
    /\ Len(eW) = 1
    /\ Cardinality(Fetching) = 1
    /\ eHist[2].claimed = "no"



-----------------------------------------------------------------------------
(* C31, C32 (checked under SpecEnrich) *)

\* C31: with a configured delay of zero there is no limiter and no worker
\* waits at the limiter before its fetch.
C31_ZeroDelayNoGating ==
    eDelayMs = 0 => \A w \in DOMAIN eW : eW[w].pc # "limit"

\* (nearby statement) Enrich creates the limiter exactly when
\* RequestDelay() is positive, which it always is: a configured delay of
\* zero becomes the default delay, and every fetch has taken a tick.
C31_ZeroDelayMeansDefaultDelay ==
    /\ HasLimiter
    /\ eDelayMs = 0 => RequestDelay(eDelayMs) = defaultRequestDelayMs
    /\ \A i \in DOMAIN eHist : eHist[i].fetch # "no" => eHist[i].tick = 1

\* The page fetches started in the batch.
FetchesStarted == Cardinality({i \in DOMAIN eHist : eHist[i].fetch # "no"})

\* C32: with a limiter, the one tick channel of the batch holds at most one
\* tick, every tick taken was delivered, a worker takes exactly one tick for
\* an index before it starts that index's fetch, the ticks taken are those
\* taken for the indices (one tick admits one fetch), and so the fetches
\* started never outnumber the ticks delivered.
C32_EveryFetchTakesATick ==
    HasLimiter =>
        /\ eTick \in {0, 1}
        /\ eLim.delivered = eLim.taken + eTick
        /\ \A i \in DOMAIN eHist :
              /\ eHist[i].tick <= 1
              /\ eHist[i].fetch # "no" => eHist[i].tick = 1
        /\ eLim.taken = Cardinality({i \in DOMAIN eHist : eHist[i].tick = 1})
        /\ FetchesStarted <= eLim.taken
        /\ FetchesStarted <= eLim.delivered

\* Two workers fetch the two pages of a batch, each after taking one of the
\* two ticks delivered so far.
C32_Witness ==
    /\ HasLimiter
    /\ Len(eArticles) = 2
    /\ eLim = [delivered |-> 2, taken |-> 2]
    /\ FetchesStarted = 2
    /\ Cardinality(Fetching) = 2



-----------------------------------------------------------------------------
(* C33 (checked under SpecStore) *)

\* Caller g's MarkArticle commits its Put in this step.
PutCommits(g) ==
    /\ st[g].pc = "txn" /\ st[g].op = "mark"
    /\ st'[g].pc = "idle"
    /\ ~ret'.err

\* C33: a MarkArticle at `now` for an identifier that already has a record,
\* expired or not, leaves that identifier with the expiry now + TTL.
C33_MarkOverwritesExpiry ==
    [][ \A g \in Callers :
          (PutCommits(g) /\ bucket[st[g].id] # NoValue)
          => decodeExpiry(bucket'[st[g].id]) = <<st[g].now + articleTTL, TRUE>>
      ]_vars

\* (nearby statement) the Put replaces whatever record the identifier had,
\* live or expired, by the whole second that holds now + TTL and touches no
\* other record; a lookup at that same instant finds the new record live
\* exactly when that second lies after it.
C33_MarkOverwritesWithExpirySecond ==
    [][ \A g \in Callers :
          PutCommits(g)
          => /\ bucket'[st[g].id] = EncodeExpiry(st[g].now + articleTTL)
             /\ \A i \in Ids \ {st[g].id} : bucket'[i] = bucket[i]
             /\ markedAt'[st[g].id] = st[g].now
             /\ (Found(bucket'[st[g].id], st[g].now) = "live")
                   <=> (FromUnix(Unix(st[g].now + articleTTL)) > st[g].now)
      ]_vars



-----------------------------------------------------------------------------
(* C34 (checked under SpecStoreForeign) *)

\* A stored value that is not 8 bytes wide or holds a non-positive second.
Malformed(value) ==
    value # NoValue /\ (value.width # expiryValueBytes \/ value.unix <= 0)

\* C34: a lookup that commits on a record whose value is not 8 bytes wide or
\* holds a non-positive second reports not seen, without error, and deletes
\* the record; a cleanup scan that commits removes every such record.
C34_MalformedRecordIsExpired ==
    [][ /\ (ret'.op = "seen" /\ ~ret'.err /\ Malformed(bucket[ret'.id]))
           => (~ret'.seen /\ bucket'[ret'.id] = NoValue)
        /\ scan' # NoScan
           => \A i \in Ids : Malformed(bucket[i]) => bucket'[i] = NoValue
      ]_vars

\* A lookup has just reported not seen for the identifier whose file value
\* had the wrong width, and removed it; the identifier was never marked.
C34_Witness ==
    /\ ret.op = "seen" /\ ret.id = "a1"
    /\ ~ret.err /\ ~ret.seen
    /\ ret.found = "expired"
    /\ markedAt["a1"] = NoMark
    /\ bucket["a1"] = NoValue
    /\ scanNow = NoMark



-----------------------------------------------------------------------------
(* C35 (checked under SpecStore) *)

\* C35: when caller g's cleanup scan fails, lastCleanup and every record
\* stay as they were, the lock is released, and the call returns the error,
\* SeenArticle with not seen; the cleanup is then still due at the present
\* time, so the next call goes for the scan again.
C35_FailedScanChangesNothing ==
    [][ \A g \in Callers :
          (st[g].pc = "scan" /\ st'[g].pc = "idle")
          => /\ lastCleanup' = lastCleanup
             /\ bucket' = bucket
             /\ markedAt' = markedAt
             /\ cleanupMu' = NoOwner
             /\ ret'.op = st[g].op /\ ret'.id = st[g].id
             /\ ret'.err /\ ~ret'.seen
             /\ clock' - FromUnix(lastCleanup') >= cleanupInterval
      ]_vars

\* A MarkArticle for a never-marked identifier has just returned the error of
\* its failed cleanup scan: no record was written and no scan is recorded.
C35_Witness ==
    /\ ret.op = "mark" /\ ret.err
    /\ ret.found = "scan failed"
    /\ bucket[ret.id] = NoValue
    /\ markedAt[ret.id] = NoMark
    /\ scanNow = NoMark
    /\ cleanupMu = NoOwner
    /\ clock - FromUnix(lastCleanup) >= cleanupInterval



-----------------------------------------------------------------------------
(* C36 (checked under SpecStore) *)

-----------------------------------------------------------------------------
(* C37 (checked under SpecFanout) *)

\* C37: every Publish of the fan-out invokes each of its sinks exactly once,
\* whatever the other sinks return.
C37_EverySinkOncePerEvent ==
    [][ \A i \in 1 .. Len(fanout.publishers) : fCalls'[i] = fCalls[i] + 1 ]_vars

\* Two events went to three sinks; the first sink failed the second event,
\* and every sink has been invoked twice.
C37_Witness ==
    /\ Len(fanout.publishers) = 3
    /\ fRes # NoResult
    /\ fOut[1]
    /\ fRes.successful < 3
    /\ \A i \in DOMAIN fCalls : fCalls[i] = 2



-----------------------------------------------------------------------------
(* C38 (checked under SpecHarvesterFair), C39 (checked under SpecHarvester) *)

\* The passes that returned an error.
FailedPasses == {i \in DOMAIN hPasses : hPasses[i].err = "error"}

\* What holds of the crawl loop in every state: the first pass is the
\* initial crawl and the i-th later pass was started by the i-th tick taken
\* from the ticker; a tick is taken only after it was delivered; every failed
\* pass was logged; Run has returned only after the cancellation, and with nil.
RunLoopShape ==
    /\ hPc # "start" => Len(hPasses) = 1 + hTicks.taken
    /\ \A i \in DOMAIN hPasses : hPasses[i].tick = i - 1
    /\ hTicks.taken <= hTicks.delivered
    /\ hLogged = Cardinality(FailedPasses)
    /\ hRet \in {"none", "nil"}
    /\ hPc = "returned" <=> hRet = "nil"
    /\ hPc = "returned" => hCtx = "cancelled"

\* A pass that returns an error leaves the loop waiting at its select.
FailedPassGoesOn ==
    \A i \in DOMAIN hPasses :
        (hPasses[i].err = "running" /\ hPasses'[i].err = "error") => hPc' = "select"

C39_PassesNeverOverlap ==
    /\ Cardinality(InFlight(hPasses)) <= 1
    /\ InFlight(hPasses) # {} <=> hPc \in {"first", "scheduled"}
    /\ hStore = "closed" => (hPc = "returned" /\ InFlight(hPasses) = {})
    /\ hOps.closed = 0

\* Two passes ran one after the other, each issued store calls, and the store
\* was closed after the loop exited.
C39_Witness ==
    /\ hStore = "closed"
    /\ Len(hPasses) = 2
    /\ hOps.open = MaxStoreCalls
    /\ hOps.closed = 0
    /\ hPc = "returned"



-----------------------------------------------------------------------------
(* C40 (checked under SpecMeta) *)

\* The tag gives a value: a node matches and its content is not blank.
Has(tag) == tag.present /\ tag.content.text # ""

\* C40: the returned article takes its title from og:title when that gives a
\* value, else from <title>, else keeps it; its description from
\* og:description, else from the name="description" tag, else keeps it; its
\* image from og:image (resolved against the article's URL), else keeps it;
\* ID and URL are the article's.
C40_OverlayPrecedence ==
    mOut # NotParsed =>
        /\ mOut.Title = IF Has(mDoc.ogTitle) THEN mDoc.ogTitle.content.text
                        ELSE IF Has(mDoc.title) THEN mDoc.title.content.text
                        ELSE mArt.Title
        /\ mOut.Description =
               IF Has(mDoc.ogDescription) THEN mDoc.ogDescription.content.text
               ELSE IF Has(mDoc.description) THEN mDoc.description.content.text
               ELSE mArt.Description
        /\ mOut.ImageURL =
               IF Has(mDoc.ogImage)
               THEN resolveURL(URLOf(mDoc.ogImage.content.text), mArt.URL)
               ELSE mArt.ImageURL
        /\ mOut.ID = mArt.ID
        /\ mOut.URL = mArt.URL
        /\ DOMAIN mOut = DOMAIN mArt

\* A page with og:title and <title>, only the name="description" tag, and no
\* og:image, overlaid on an article that has an image.
C40_Witness ==
    /\ mOut # NotParsed
    /\ Has(mDoc.ogTitle) /\ Has(mDoc.title)
    /\ ~mDoc.ogDescription.present /\ Has(mDoc.description)
    /\ ~mDoc.ogImage.present
    /\ mArt.ImageURL = FeedImage
    /\ mOut.Title = "OG Title"
    /\ mOut.Description = "Meta Desc"
    /\ mOut.ImageURL = FeedImage


=============================================================================
